---- MODULE Spec2Model ----
(***************************************************************************)
(* The reasoning step of the WhatsApp chatbot flow                         *)
(* (f/development/2_whatsapp_llm_processing.py): main, the two agent       *)
(* loops, the tool executor and the knowledge retriever.                   *)
(***************************************************************************)
EXTENDS Integers, Sequences, FiniteSets, TLC

\* ------------------------------------------------------------------------
\* Bounds of the model
\* ------------------------------------------------------------------------
\* largest max_iterations a direct call of an agent loop is given
MaxIter == 2
\* largest number of tool-call requests in one provider response
MaxCalls == 2
\* number of freely chosen tool-call requests in one run of a directly
\* called loop; a provider that goes past it keeps repeating PlainRequest,
\* answered by PlainEnv, until the loop gives up
MaxRequests == 2
\* the same for a loop called by main
MaxMainRequests == 1
\* largest number of chunks a retrieval of main returns
MaxChunks == 1

\* ------------------------------------------------------------------------
\* Program constants
\* ------------------------------------------------------------------------
MAIN_MAX_ITERATIONS == 5

PyNone == "<None>"
CHATBOT_ID == "chatbot-123"

STEP1_FAILED_REPLY == "Sorry, I'm unable to process your message at this time. Please try again later."
DEFAULT_STEP1_REASON == "Unknown error in Step 1"
DEFAULT_FALLBACK_LIMIT == "Lo siento, he alcanzado mi limite de uso. El administrador ha sido notificado."
DEFAULT_FALLBACK_ERROR == "Lo siento, estoy teniendo problemas tecnicos. Por favor intenta de nuevo mas tarde."
OPENAI_LOOP_ERROR_REPLY == "I encountered an error while processing your request."
OPENAI_UNEXPECTED_REPLY == "I encountered an issue processing your request."
OPENAI_REPHRASE_REPLY == "I need more time to think about this. Could you please rephrase your question?"
GEMINI_REPHRASE_REPLY == "Necesito mas informacion para responder. Podrias reformular tu pregunta?"

\* ------------------------------------------------------------------------
\* Strings as character sequences: str.lower() and the `in` operator
\* ------------------------------------------------------------------------
StrChars(s) ==
  CASE s = "429 Quota exceeded" -> <<"4", "2", "9", " ", "Q", "u", "o", "t", "a", " ", "e", "x", "c", "e", "e", "d", "e", "d">>
    [] s = "http://mcp_pricing_calculator:3001" -> <<"h", "t", "t", "p", ":", "/", "/", "m", "c", "p", "_", "p", "r", "i", "c", "i", "n", "g", "_", "c", "a", "l", "c", "u", "l", "a", "t", "o", "r", ":", "3", "0", "0", "1">>
    [] s = "http://mcp_pricing_calculator:3001/" -> <<"h", "t", "t", "p", ":", "/", "/", "m", "c", "p", "_", "p", "r", "i", "c", "i", "n", "g", "_", "c", "a", "l", "c", "u", "l", "a", "t", "o", "r", ":", "3", "0", "0", "1", "/">>
    [] s = "http://mcp_pricing_calculator:3001//" -> <<"h", "t", "t", "p", ":", "/", "/", "m", "c", "p", "_", "p", "r", "i", "c", "i", "n", "g", "_", "c", "a", "l", "c", "u", "l", "a", "t", "o", "r", ":", "3", "0", "0", "1", "/", "/">>
    [] s = "/tools/" -> <<"/", "t", "o", "o", "l", "s", "/">>
    [] s = "calculate_pricing" -> <<"c", "a", "l", "c", "u", "l", "a", "t", "e", "_", "p", "r", "i", "c", "i", "n", "g">>
    [] s = "contact_owner" -> <<"c", "o", "n", "t", "a", "c", "t", "_", "o", "w", "n", "e", "r">>
    [] s = "API Error" -> <<"A", "P", "I", " ", "E", "r", "r", "o", "r">>
    [] s = "RESOURCE EXHAUSTED" -> <<"R", "E", "S", "O", "U", "R", "C", "E", " ", "E", "X", "H", "A", "U", "S", "T", "E", "D">>
    [] s = "Connection reset" -> <<"C", "o", "n", "n", "e", "c", "t", "i", "o", "n", " ", "r", "e", "s", "e", "t">>
    [] s = "'list' object has no attribute 'get'" -> <<"'", "l", "i", "s", "t", "'", " ", "o", "b", "j", "e", "c", "t", " ", "h", "a", "s", " ", "n", "o", " ", "a", "t", "t", "r", "i", "b", "u", "t", "e", " ", "'", "g", "e", "t", "'">>
    [] s = "'NoneType' object has no attribute 'prompt_tokens'" -> <<"'", "N", "o", "n", "e", "T", "y", "p", "e", "'", " ", "o", "b", "j", "e", "c", "t", " ", "h", "a", "s", " ", "n", "o", " ", "a", "t", "t", "r", "i", "b", "u", "t", "e", " ", "'", "p", "r", "o", "m", "p", "t", "_", "t", "o", "k", "e", "n", "s", "'">>
    [] s = "quota" -> <<"q", "u", "o", "t", "a">>
    [] s = "limit" -> <<"l", "i", "m", "i", "t">>
    [] s = "rate" -> <<"r", "a", "t", "e">>
    [] s = "exhausted" -> <<"e", "x", "h", "a", "u", "s", "t", "e", "d">>
    [] s = "429" -> <<"4", "2", "9">>
    [] s = "object of type 'NoneType' has no len()" -> <<"o", "b", "j", "e", "c", "t", " ", "o", "f", " ", "t", "y", "p", "e", " ", "'", "N", "o", "n", "e", "T", "y", "p", "e", "'", " ", "h", "a", "s", " ", "n", "o", " ", "l", "e", "n", "(", ")">>
    [] s = "gemini-pro" -> <<"g", "e", "m", "i", "n", "i", "-", "p", "r", "o">>
    [] s = "GPT-4o" -> <<"G", "P", "T", "-", "4", "o">>
    [] s = "Gemini-GPT" -> <<"G", "e", "m", "i", "n", "i", "-", "G", "P", "T">>
    [] s = "claude-3" -> <<"c", "l", "a", "u", "d", "e", "-", "3">>
    [] s = "gemini" -> <<"g", "e", "m", "i", "n", "i">>
    [] s = "gpt" -> <<"g", "p", "t">>
    [] s = "type" -> <<"t", "y", "p", "e">>
    [] s = "properties" -> <<"p", "r", "o", "p", "e", "r", "t", "i", "e", "s">>
    [] s = "required" -> <<"r", "e", "q", "u", "i", "r", "e", "d">>
    [] s = "description" -> <<"d", "e", "s", "c", "r", "i", "p", "t", "i", "o", "n">>
    [] s = "items" -> <<"i", "t", "e", "m", "s">>
    [] s = "enum" -> <<"e", "n", "u", "m">>
    [] s = "title" -> <<"t", "i", "t", "l", "e">>
    [] s = "query" -> <<"q", "u", "e", "r", "y">>
    [] s = "street" -> <<"s", "t", "r", "e", "e", "t">>
    [] s = "additionalProperties" -> <<"a", "d", "d", "i", "t", "i", "o", "n", "a", "l", "P", "r", "o", "p", "e", "r", "t", "i", "e", "s">>
    [] s = "additional_properties" -> <<"a", "d", "d", "i", "t", "i", "o", "n", "a", "l", "_", "p", "r", "o", "p", "e", "r", "t", "i", "e", "s">>
    [] s = "Additional_Items" -> <<"A", "d", "d", "i", "t", "i", "o", "n", "a", "l", "_", "I", "t", "e", "m", "s">>
    [] s = "additionalproperties" -> <<"a", "d", "d", "i", "t", "i", "o", "n", "a", "l", "p", "r", "o", "p", "e", "r", "t", "i", "e", "s">>
    [] s = "additionalitems" -> <<"a", "d", "d", "i", "t", "i", "o", "n", "a", "l", "i", "t", "e", "m", "s">>

UpperCase == <<"A", "B", "C", "D", "E", "F", "G", "H", "I", "J", "K", "L", "M",
               "N", "O", "P", "Q", "R", "S", "T", "U", "V", "W", "X", "Y", "Z">>
LowerCase == <<"a", "b", "c", "d", "e", "f", "g", "h", "i", "j", "k", "l", "m",
               "n", "o", "p", "q", "r", "s", "t", "u", "v", "w", "x", "y", "z">>

LowerChar(c) ==
  IF \E i \in 1..26 : UpperCase[i] = c
  THEN LowerCase[CHOOSE i \in 1..26 : UpperCase[i] = c]
  ELSE c

\* str.lower()
Lower(cs) == [i \in 1..Len(cs) |-> LowerChar(cs[i])]

\* sub in cs
Contains(cs, sub) ==
  \E i \in 0..(Len(cs) - Len(sub)) : \A j \in 1..Len(sub) : cs[i + j] = sub[j]

LIMIT_KEYWORDS == {"quota", "limit", "rate", "exhausted", "429"}

\* any(keyword in str(e).lower() for keyword in [...])
is_limit_error(msg) ==
  \E keyword \in LIMIT_KEYWORDS : Contains(Lower(StrChars(msg)), StrChars(keyword))

\* ------------------------------------------------------------------------
\* Python values: a dict is a set of <<key, value>> pairs, values are the
\* JSON renderings of scalars
\* ------------------------------------------------------------------------
PyDict(pairs) == [py |-> "dict", d |-> pairs]
PyList == [py |-> "list", d |-> {}]

IsDict(v) == v.py = "dict"
HasKey(v, k) == \E p \in v.d : p[1] = k
Get(v, k, default) ==
  IF HasKey(v, k) THEN (CHOOSE p \in v.d : p[1] = k)[2] ELSE default
\* the values `not x` is true of
Falsy(x) == x \in {"", "null", "false", "0", PyNone}

\* json.loads on the argument strings a provider can send
JsonLoads(raw) ==
  CASE raw = "{\"query\": \"test\"}" -> [ok |-> TRUE, val |-> PyDict({<<"query", "test">>})]
    [] raw = "{\"chatbot_id\": \"other\"}" -> [ok |-> TRUE, val |-> PyDict({<<"chatbot_id", "other">>})]
    [] raw = "{}" -> [ok |-> TRUE, val |-> PyDict({})]
    [] raw = "[1, 2]" -> [ok |-> TRUE, val |-> PyList]
    [] raw = "{bad" -> [ok |-> FALSE, val |-> PyDict({})]

\* ------------------------------------------------------------------------
\* Outcome of a call: a returned value or a raised exception, with the
\* network calls it made
\* ------------------------------------------------------------------------
\* embeddings_key: the credential handed to retrieve_knowledge, if it was called
Return(v, net) ==
  [raised |-> FALSE, value |-> v, exc |-> "", net |-> net, embeddings_key |-> PyNone]
Raise(msg, net) ==
  [raised |-> TRUE, value |-> PyList, exc |-> msg, net |-> net, embeddings_key |-> PyNone]

ATTRIBUTE_ERROR_GET == "'list' object has no attribute 'get'"

\* ------------------------------------------------------------------------
\* Canonical tool definitions
\* ------------------------------------------------------------------------
McpDef(name, url) ==
  [name |-> name, has_metadata |-> TRUE, tool_type |-> "mcp",
   mcp_server_url |-> url, script_path |-> PyNone]
WindmillDef(name, path) ==
  [name |-> name, has_metadata |-> TRUE, tool_type |-> "windmill",
   mcp_server_url |-> PyNone, script_path |-> path]
\* the built-in definition main appends when RAG is enabled: no _metadata
SearchDef ==
  [name |-> "search_knowledge_base", has_metadata |-> FALSE, tool_type |-> PyNone,
   mcp_server_url |-> PyNone, script_path |-> PyNone]

\* ------------------------------------------------------------------------
\* The environment of one tool execution
\* ------------------------------------------------------------------------
\* http: what requests.post / raise_for_status / response.json() do
\* script: what wmill.run_script_by_path does
\* embed: what the embeddings call and the vector query do
Env(http, body, script, embed, chunks) ==
  [http |-> http, body |-> body, script |-> script, embed |-> embed, chunks |-> chunks]

PlainEnv == Env("ok", PyDict({<<"costo_total", "$899.00 MXN/mes">>}), "ok", "ok", 1)

Envs ==
  { PlainEnv,
    Env("ok", PyDict({<<"error", "null">>, <<"result", "42">>}), "ok", "ok", 1),
    Env("ok", PyList, "ok", "ok", 0),
    Env("timeout", PyDict({}), "raise", "raise", 0) }

\* retrieve_knowledge
retrieve_knowledge(openai_api_key, env) ==
  IF openai_api_key = ""
  THEN [chunks |-> 0, net |-> <<>>]
  ELSE IF env.embed = "raise"
       THEN [chunks |-> 0, net |-> <<"embedding">>]
       ELSE IF env.embed = "db_raise"
            THEN [chunks |-> 0, net |-> <<"embedding", "vector_query">>]
            ELSE [chunks |-> env.chunks, net |-> <<"embedding", "vector_query">>]

\* execute_rag_search
execute_rag_search(query, openai_api_key, env) ==
  LET r == retrieve_knowledge(openai_api_key, env)
      out == IF r.chunks = 0
             THEN Return(PyDict({<<"success", "true">>, <<"results", "[]">>,
                                 <<"message", "No relevant information found in knowledge base.">>}), r.net)
             ELSE Return(PyDict({<<"success", "true">>, <<"results", "[chunks]">>,
                                 <<"count", "1">>}), r.net)
  IN  [out EXCEPT !.embeddings_key = openai_api_key]

\* the status of the response the POST received; 0 when none was received
StatusCode(http) ==
  CASE http = "ok" -> 200
    [] http = "created" -> 201
    [] http = "no_content" -> 204
    [] http = "not_modified" -> 304
    [] http = "not_found" -> 404
    [] http = "server_error" -> 500
    [] OTHER -> 0

\* response.raise_for_status(): raises for a 4xx or a 5xx status only
raise_for_status(status) == status >= 400 /\ status < 600

\* a body response.json() cannot parse; the exception it raises is a
\* RequestException in some versions of the library and a ValueError in others
NoJsonBody(exc) == [py |-> "bytes", d |-> {<<"raises", exc>>}]

\* str.rstrip(c)
RECURSIVE rstrip(_, _)
rstrip(cs, c) ==
  IF cs # <<>> /\ cs[Len(cs)] = c THEN rstrip(SubSeq(cs, 1, Len(cs) - 1), c) ELSE cs

\* f"{mcp_server_url.rstrip('/')}/tools/{tool_name}"
tool_endpoint(mcp_server_url, tool_name) ==
  rstrip(StrChars(mcp_server_url), "/") \o StrChars("/tools/") \o StrChars(tool_name)

\* {"chatbot_id": chatbot_id, **arguments}
mcp_payload_ArgumentsLast(arguments, chatbot_id) ==
  PyDict(arguments.d \cup {p \in {<<"chatbot_id", chatbot_id>>} : ~HasKey(arguments, "chatbot_id")})

\* payload = {**arguments, "chatbot_id": chatbot_id}
mcp_payload(arguments, chatbot_id) ==
  PyDict({p \in arguments.d : p[1] # "chatbot_id"} \cup {<<"chatbot_id", chatbot_id>>})

\* execute_mcp_tool
execute_mcp_tool(tool_name, metadata, arguments, chatbot_id, env) ==
  IF metadata.mcp_server_url \in {PyNone, ""}
  THEN Return(PyDict({<<"error", "MCP server URL not configured">>}), <<>>)
  ELSE IF ~IsDict(arguments)
       THEN Raise("'list' object is not a mapping", <<>>)
       ELSE CASE env.http = "timeout" ->
                   Return(PyDict({<<"error", "MCP server timeout (30s)">>}), <<"mcp_post">>)
              [] StatusCode(env.http) = 0 \/ raise_for_status(StatusCode(env.http)) ->
                   Return(PyDict({<<"error", "MCP server error: detail">>}), <<"mcp_post">>)
              [] env.body.py = "bytes" ->
                   IF env.body = NoJsonBody("RequestException")
                   THEN Return(PyDict({<<"error", "MCP server error: detail">>}), <<"mcp_post">>)
                   ELSE Raise("Expecting value", <<"mcp_post">>)
              [] OTHER -> Return(env.body, <<"mcp_post">>)

\* execute_windmill_tool
execute_windmill_tool(metadata, arguments, env) ==
  IF metadata.script_path \in {PyNone, ""}
  THEN Return(PyDict({<<"error", "Windmill script path not configured">>}), <<>>)
  ELSE IF env.script = "ok"
       THEN Return(PyDict({<<"success", "true">>, <<"data", "result">>}), <<"run_script">>)
       ELSE Return(PyDict({<<"error", "Windmill script execution failed: boom">>}), <<"run_script">>)

\* next((t for t in tools if t.get("function", {}).get("name") == tool_name), None)
FindTool(tools, tool_name) ==
  LET idx == {i \in 1..Len(tools) : tools[i].name = tool_name}
  IN  IF idx = {} THEN [found |-> FALSE, tool |-> SearchDef]
      ELSE [found |-> TRUE, tool |-> tools[CHOOSE i \in idx : \A j \in idx : i <= j]]

\* execute_tool
execute_tool(tool_name, arguments, tools, chatbot_id, openai_api_key, env) ==
  LET f == FindTool(tools, tool_name)
      tool_type == IF f.tool.has_metadata THEN f.tool.tool_type ELSE "unknown"
  IN  IF ~f.found
      THEN IF tool_name = "search_knowledge_base"
           THEN IF ~IsDict(arguments)
                THEN Raise(ATTRIBUTE_ERROR_GET, <<>>)
                ELSE execute_rag_search(Get(arguments, "query", ""), openai_api_key, env)
           ELSE Return(PyDict({<<"error", "Tool not found">>}), <<>>)
      ELSE LET r == CASE tool_type = "mcp" ->
                           execute_mcp_tool(tool_name, f.tool, arguments, chatbot_id, env)
                      [] tool_type = "windmill" ->
                           execute_windmill_tool(f.tool, arguments, env)
                      [] OTHER ->
                           Return(PyDict({<<"error", "Unknown tool type">>}), <<>>)
           IN  IF r.raised
               THEN Return(PyDict({<<"error", r.exc>>}), r.net)
               ELSE r

\* ------------------------------------------------------------------------
\* State
\* ------------------------------------------------------------------------
VARIABLES
  entry,                \* the function under call: "loop" or "main"
  pc,                   \* position of the call
  args,                 \* arguments of the agent loop
  iteration,
  tool_executions,
  messages,
  total_tokens_input,
  total_tokens_output,
  pending,              \* tool calls of the current response not yet executed
  loop_result,          \* what the agent loop returned
  provider_calls,       \* provider calls attempted so far
  requests_seen,        \* tool-call requests received in provider responses
  tools_run,            \* execute_tool invocations so far
  net_calls,            \* kinds of network calls attempted so far
  failed_by,            \* what raised into an except clause: provider, response or tool
  responses,            \* per provider response: its tool-call requests, and whether
                        \* it signals them the way the loop looks for
  tool_outcome,         \* the outcome of the last execute_tool invocation
  ctx,                  \* the arguments of main
  provider,             \* main: the resolved provider
  retrieved_chunks,     \* main: number of chunks retrieve_knowledge returned
  full_system_prompt,   \* main: the blocks of the assembled system prompt
  tool_definitions,     \* main: the canonical tool list
  main_result,          \* what main returned
  fn_call,              \* a direct call of a helper function: its name and arguments
  fn_result,            \* what the helper functions called so far returned
  webhook_events,       \* step 1: the rows of the webhook_events table
  invocations,          \* step 1: the invocations of main of the context loader
  usage_summary,        \* the usage counters of the organization in the billing period
  messages_table,       \* the rows of the chat history table (messages)
  runs                  \* the steps after step 1 of the flow run of each invocation

loopVars == <<args, iteration, tool_executions, messages, total_tokens_input,
              total_tokens_output, pending, loop_result>>
ghostVars == <<provider_calls, requests_seen, tools_run, net_calls, failed_by, responses,
               tool_outcome>>
mainVars == <<ctx, provider, retrieved_chunks, full_system_prompt, tool_definitions,
              main_result>>
fnVars == <<fn_call, fn_result>>
step1Vars == <<webhook_events, invocations>>
flowVars == <<usage_summary, messages_table, runs>>
sideVars == <<fnVars, step1Vars, flowVars>>
vars == <<entry, pc, loopVars, ghostVars, mainVars, sideVars>>

\* ------------------------------------------------------------------------
\* What a provider can answer
\* ------------------------------------------------------------------------
ProviderErrors == {"429 Quota exceeded", "API Error", "RESOURCE EXHAUSTED"}

RequestNames == {"calculate_pricing", "run_report", "search_knowledge_base", "ghost_tool"}
OpenAIRawArguments == {"{\"query\": \"test\"}", "{bad", "[1, 2]"}
GeminiArguments == {PyDict({<<"query", "test">>}), PyDict({})}

\* a tool-call request: arguments is the raw JSON string of a chat-completion
\* tool call, or the args mapping of a Gemini function call
Request(name, arguments) == [name |-> name, arguments |-> arguments]
PlainRequest(api) ==
  IF api = "openai" THEN Request("calculate_pricing", "{\"query\": \"test\"}")
  ELSE Request("calculate_pricing", PyDict({<<"query", "test">>}))

Requests(api) ==
  IF api = "openai"
  THEN {Request(n, a) : n \in RequestNames, a \in OpenAIRawArguments}
  ELSE {Request(n, a) : n \in RequestNames, a \in GeminiArguments}

SeqsUpTo(S, n) == UNION {[1..k -> S] : k \in 1..n}

\* the tool-call lists a response can carry, given the requests seen so far
RequestCap == IF entry = "loop" THEN MaxRequests ELSE MaxMainRequests

RequestLists(api, seen) ==
  {cs \in SeqsUpTo(Requests(api), MaxCalls) : seen + Len(cs) <= RequestCap}
    \cup {<<PlainRequest(api)>>}

\* the provider has gone past the cap
PastCap == requests_seen > RequestCap

CALL_IDS == <<"call_1", "call_2", "call_3", "call_4">>

USAGE == [prompt_tokens |-> 100, completion_tokens |-> 20]
\* the usage a provider reports with its later responses
LATER_USAGE == [prompt_tokens |-> 120, completion_tokens |-> 30]
\* the usage reported with the n-th response of a run
UsageAt(n) == IF n = 1 THEN USAGE ELSE LATER_USAGE
FINAL_TEXT == "Hello! How can I help?"
\* candidate.finish_reason of a Gemini response without function calls
GeminiFinishReasons == {"STOP", "MAX_TOKENS"}

\* ------------------------------------------------------------------------
\* Results of the agent loops
\* ------------------------------------------------------------------------
BASE_USAGE_KEYS == {"provider", "model", "tokens_input", "tokens_output", "tool_calls", "iterations"}

LoopUsage(extra, tin, tout, execs, iter, fr, err, lim) ==
  [keys |-> BASE_USAGE_KEYS \cup extra,
   provider |-> args.provider, model |-> args.model_name,
   tokens_input |-> tin, tokens_output |-> tout,
   tool_calls |-> Len(execs), iterations |-> iter,
   finish_reason |-> fr, error |-> err, is_limit_error |-> lim,
   max_iterations_reached |-> ("max_iterations_reached" \in extra),
   rag_used |-> FALSE, chunks_retrieved |-> 0]

LoopResult(reply, execs, usage) ==
  [returned |-> TRUE, reply_text |-> reply, tool_executions |-> execs, usage_info |-> usage]
NoResult ==
  [returned |-> FALSE, reply_text |-> PyNone, tool_executions |-> <<>>,
   usage_info |-> [keys |-> {}, provider |-> "", model |-> "", tokens_input |-> 0,
                   tokens_output |-> 0, tool_calls |-> 0, iterations |-> 0,
                   finish_reason |-> "", error |-> "", is_limit_error |-> FALSE,
                   max_iterations_reached |-> FALSE, rag_used |-> FALSE,
                   chunks_retrieved |-> 0]]

Msg(role, parts) == [role |-> role, parts |-> parts]
Part(name, id, content) == [name |-> name, id |-> id, content |-> content]

\* the usage block of a response, and a response without one
Reported(u) ==
  [present |-> TRUE, prompt_tokens |-> u.prompt_tokens,
   completion_tokens |-> u.completion_tokens]
NotReported == [present |-> FALSE, prompt_tokens |-> 0, completion_tokens |-> 0]

\* a provider response as the run received it: the number of tool calls it
\* carries, whether it signals them the way the loop looks for, its raw
\* termination reason, whether it carries text, and its usage block
Response(calls, signalled, finish, has_text, reported) ==
  [calls |-> calls, signalled |-> signalled, finish |-> finish, has_text |-> has_text,
   reported |-> reported]

\* the except clause, returning an empty trace
OpenAIFailed_EmptyTrace(msg, iter, tin, tout) ==
  LoopResult(OPENAI_LOOP_ERROR_REPLY, <<>>,
             LoopUsage({"error"}, tin, tout, <<>>, iter, "", msg, FALSE))

\* the except clause of execute_agent_loop_openai
OpenAIFailed(msg, iter, tin, tout) ==
  LoopResult(OPENAI_LOOP_ERROR_REPLY, tool_executions,
             LoopUsage({"error"}, tin, tout, tool_executions, iter, "", msg, FALSE))

\* the except clause, reporting no tokens
GeminiFailed_ZeroTokens(msg, iter, tin, tout) ==
  LoopResult(IF is_limit_error(msg) THEN args.fallback_message_limit
                                    ELSE args.fallback_message_error,
             tool_executions,
             LoopUsage({"error", "is_limit_error"}, 0, 0, tool_executions, iter,
                       "", msg, is_limit_error(msg)))

\* the except clause of execute_agent_loop_gemini
GeminiFailed(msg, iter, tin, tout) ==
  LoopResult(IF is_limit_error(msg) THEN args.fallback_message_limit
                                    ELSE args.fallback_message_error,
             tool_executions,
             LoopUsage({"error", "is_limit_error"}, tin, tout, tool_executions, iter,
                       "", msg, is_limit_error(msg)))

LoopReturns(r) ==
  /\ loop_result' = r
  /\ pc' = "loop_returned"
  /\ pending' = <<>>

\* ------------------------------------------------------------------------
\* execute_agent_loop_openai
\* ------------------------------------------------------------------------
\* one pass of the while body up to the dispatch on the response
OpenAICall ==
  /\ UNCHANGED <<mainVars, sideVars>>
  /\ pc = "loop_head"
  /\ args.provider = "openai"
  /\ iteration < args.max_iterations
  /\ iteration' = iteration + 1
  /\ provider_calls' = provider_calls + 1
  /\ net_calls' = net_calls \cup {"provider"}
  /\ UNCHANGED <<entry, args, tool_executions, tools_run, tool_outcome>>
  /\ \/ \* client.chat.completions.create raises
        \E msg \in ProviderErrors :
          /\ ~PastCap
          /\ LoopReturns(OpenAIFailed(msg, iteration', total_tokens_input, total_tokens_output))
          /\ failed_by' = "provider"
          /\ UNCHANGED <<messages, total_tokens_input, total_tokens_output, requests_seen,
                         responses>>
     \/ \* the response carries no usage block
        /\ ~PastCap
        /\ LoopReturns(OpenAIFailed("'NoneType' object has no attribute 'prompt_tokens'",
                                    iteration', total_tokens_input, total_tokens_output))
        /\ failed_by' = "response"
        /\ responses' = Append(responses, Response(0, FALSE, "stop", TRUE, NotReported))
        /\ UNCHANGED <<messages, total_tokens_input, total_tokens_output, requests_seen>>
     \/ \* finish_reason == "tool_calls" and choice.message.tool_calls
        \E cs \in RequestLists("openai", requests_seen) :
          /\ total_tokens_input' = total_tokens_input + UsageAt(iteration').prompt_tokens
          /\ total_tokens_output' = total_tokens_output + UsageAt(iteration').completion_tokens
          /\ requests_seen' = requests_seen + Len(cs)
          /\ responses' = Append(responses,
                 Response(Len(cs), TRUE, "tool_calls", FALSE, Reported(UsageAt(iteration'))))
          /\ messages' = Append(messages,
                 Msg("assistant", [i \in 1..Len(cs) |-> Part(cs[i].name, CALL_IDS[i], PyDict({}))]))
          /\ pending' = [i \in 1..Len(cs) |->
                            [name |-> cs[i].name, arguments |-> cs[i].arguments, id |-> CALL_IDS[i]]]
          /\ pc' = "exec_tools"
          /\ UNCHANGED <<loop_result, failed_by>>
     \/ \* finish_reason == "stop"
        \E content \in {FINAL_TEXT, PyNone} :
          /\ ~PastCap
          /\ total_tokens_input' = total_tokens_input + UsageAt(iteration').prompt_tokens
          /\ total_tokens_output' = total_tokens_output + UsageAt(iteration').completion_tokens
          /\ LoopReturns(LoopResult(content, tool_executions,
                 LoopUsage({}, total_tokens_input', total_tokens_output', tool_executions,
                           iteration', "", "", FALSE)))
          /\ responses' = Append(responses,
                 Response(0, FALSE, "stop", content # PyNone, Reported(UsageAt(iteration'))))
          /\ UNCHANGED <<messages, requests_seen, failed_by>>
     \/ \* any other finish_reason (the truncated response may carry a tool
        \* call), or "tool_calls" without tool calls
        \E fr \in {"length", "tool_calls"}, content \in {FINAL_TEXT, PyNone}, n \in {0, 1} :
          /\ ~PastCap
          /\ fr = "tool_calls" => n = 0
          /\ responses' = Append(responses,
                 Response(n, FALSE, fr, content # PyNone, Reported(UsageAt(iteration'))))
          /\ total_tokens_input' = total_tokens_input + UsageAt(iteration').prompt_tokens
          /\ total_tokens_output' = total_tokens_output + UsageAt(iteration').completion_tokens
          /\ LoopReturns(LoopResult(
                 IF Falsy(content) THEN OPENAI_UNEXPECTED_REPLY ELSE content,
                 tool_executions,
                 LoopUsage({"finish_reason"}, total_tokens_input', total_tokens_output',
                           tool_executions, iteration', fr, "", FALSE)))
          /\ requests_seen' = requests_seen + n
          /\ UNCHANGED <<messages, failed_by>>

\* the environment answering the request at the head of pending: free for
\* the first MaxRequests requests of a run, PlainEnv afterwards
EnvsNow ==
  IF requests_seen - Len(pending) + 1 <= RequestCap THEN Envs ELSE {PlainEnv}

Range(seq) == {seq[i] : i \in 1..Len(seq)}

\* the execution of the tool did not produce the tool's answer: the tool is
\* unknown or not executable, its arguments are unusable, or its channel failed
ToolFailed(tool_name, arguments, tools, env) ==
  LET f == FindTool(tools, tool_name)
  IN  IF ~f.found THEN tool_name # "search_knowledge_base" \/ ~IsDict(arguments)
      ELSE CASE f.tool.has_metadata /\ f.tool.tool_type = "mcp" ->
                  f.tool.mcp_server_url \in {PyNone, ""} \/ ~IsDict(arguments) \/ env.http # "ok"
             [] f.tool.has_metadata /\ f.tool.tool_type = "windmill" ->
                  f.tool.script_path \in {PyNone, ""} \/ env.script # "ok"
             [] OTHER -> TRUE

\* the record with the iteration counted from 0
ExecutionRecord_ZeroBased(tool_name, tool_args, tool_result, iter) ==
  [tool_name |-> tool_name, arguments |-> tool_args, result |-> tool_result,
   status |-> IF ~Falsy(Get(tool_result, "error", PyNone)) THEN "failed" ELSE "success",
   iteration |-> iter - 1]

ExecutionRecord(tool_name, tool_args, tool_result, iter) ==
  [tool_name |-> tool_name, arguments |-> tool_args, result |-> tool_result,
   status |-> IF ~Falsy(Get(tool_result, "error", PyNone)) THEN "failed" ELSE "success",
   iteration |-> iter]

\* the tool message without the id of its request
ToolMessage_NoCallId(tool_call, tool_result) ==
  Msg("tool", <<Part(tool_call.name, "", tool_result)>>)

\* {"role": "tool", "tool_call_id": ..., "name": ..., "content": ...}
ToolMessage(tool_call, tool_result) ==
  Msg("tool", <<Part(tool_call.name, tool_call.id, tool_result)>>)

\* one pass of the body of `for tool_call in choice.message.tool_calls`
OpenAIExecTool ==
  /\ UNCHANGED <<mainVars, sideVars>>
  /\ pc = "exec_tools"
  /\ args.provider = "openai"
  /\ pending # <<>>
  /\ \E env \in EnvsNow :
       LET tool_call == Head(pending)
           parsed == JsonLoads(tool_call.arguments)
           tool_args == IF parsed.ok THEN parsed.val ELSE PyDict({})
           out == execute_tool(tool_call.name, tool_args, args.tools, CHATBOT_ID,
                               args.api_key, env)
       IN  /\ tools_run' = tools_run + 1
           /\ net_calls' = net_calls \cup Range(out.net)
           /\ tool_outcome' = [called |-> TRUE, raised |-> out.raised, value |-> out.value,
                               embeddings_key |-> out.embeddings_key,
                               failed |-> ToolFailed(Head(pending).name, tool_args, args.tools, env)]
           /\ IF out.raised \/ ~IsDict(out.value)
              THEN /\ LoopReturns(OpenAIFailed(
                          IF out.raised THEN out.exc ELSE ATTRIBUTE_ERROR_GET,
                          iteration, total_tokens_input, total_tokens_output))
                   /\ failed_by' = "tool"
                   /\ UNCHANGED <<tool_executions, messages>>
              ELSE /\ tool_executions' = Append(tool_executions,
                          ExecutionRecord(tool_call.name, tool_args, out.value, iteration))
                   /\ messages' = Append(messages, ToolMessage(tool_call, out.value))
                   /\ pending' = Tail(pending)
                   /\ pc' = IF Tail(pending) = <<>> THEN "loop_head" ELSE "exec_tools"
                   /\ UNCHANGED <<loop_result, failed_by>>
  /\ UNCHANGED <<entry, args, iteration, total_tokens_input, total_tokens_output,
                 provider_calls, requests_seen, responses>>

\* the code after the while loop of execute_agent_loop_openai
OpenAIExhausted ==
  /\ UNCHANGED <<mainVars, sideVars>>
  /\ pc = "loop_head"
  /\ args.provider = "openai"
  /\ ~(iteration < args.max_iterations)
  /\ LoopReturns(LoopResult(OPENAI_REPHRASE_REPLY, tool_executions,
         LoopUsage({"max_iterations_reached"}, total_tokens_input, total_tokens_output,
                   tool_executions, iteration, "", "", FALSE)))
  /\ UNCHANGED <<entry, args, iteration, tool_executions, messages, total_tokens_input,
                 total_tokens_output, ghostVars>>

\* ------------------------------------------------------------------------
\* execute_agent_loop_gemini
\* ------------------------------------------------------------------------
GeminiCall ==
  /\ UNCHANGED <<mainVars, sideVars>>
  /\ pc = "loop_head"
  /\ args.provider = "google"
  /\ iteration < args.max_iterations
  /\ iteration' = iteration + 1
  /\ provider_calls' = provider_calls + 1
  /\ net_calls' = net_calls \cup {"provider"}
  /\ UNCHANGED <<entry, args, tool_executions, tools_run, tool_outcome>>
  /\ \/ \* client.models.generate_content raises
        \E msg \in ProviderErrors :
          /\ ~PastCap
          /\ LoopReturns(GeminiFailed(msg, iteration', total_tokens_input, total_tokens_output))
          /\ failed_by' = "provider"
          /\ UNCHANGED <<messages, total_tokens_input, total_tokens_output, requests_seen,
                         responses>>
     \/ \E usage_metadata \in (IF PastCap THEN {TRUE} ELSE {TRUE, FALSE}) :
          LET tin == IF usage_metadata
                     THEN total_tokens_input + UsageAt(iteration').prompt_tokens
                     ELSE total_tokens_input
              tout == IF usage_metadata
                      THEN total_tokens_output + UsageAt(iteration').completion_tokens
                      ELSE total_tokens_output
              reported == IF usage_metadata THEN Reported(UsageAt(iteration'))
                          ELSE NotReported
          IN  /\ total_tokens_input' = tin
              /\ total_tokens_output' = tout
              /\ \/ \* the parts carry function calls
                    \E cs \in RequestLists("google", requests_seen) :
                      /\ requests_seen' = requests_seen + Len(cs)
                      /\ responses' = Append(responses,
                            Response(Len(cs), TRUE, "STOP", FALSE, reported))
                      /\ messages' = Append(messages,
                            Msg("model", [i \in 1..Len(cs) |-> Part(cs[i].name, "", PyDict({}))]))
                      /\ pending' = [i \in 1..Len(cs) |->
                            [name |-> cs[i].name, arguments |-> cs[i].arguments, id |-> ""]]
                      /\ pc' = "exec_tools"
                      /\ UNCHANGED <<loop_result, failed_by>>
                 \/ \* no function call: response.text is the final answer
                    \E text \in {FINAL_TEXT, PyNone}, fr \in GeminiFinishReasons :
                      /\ ~PastCap
                      /\ LoopReturns(LoopResult(text, tool_executions,
                            LoopUsage({}, tin, tout, tool_executions, iteration', "", "", FALSE)))
                      /\ responses' = Append(responses,
                            Response(0, FALSE, fr, text # PyNone, reported))
                      /\ UNCHANGED <<messages, requests_seen, failed_by>>

\* one pass of the body of `for part in function_calls`; after the last
\* pass the function responses of the iteration are appended to messages
\* GeminiExecTool with the function-response content never appended
GeminiExecTool_NoFunctionContent ==
  /\ UNCHANGED <<mainVars, sideVars>>
  /\ pc = "exec_tools"
  /\ args.provider = "google"
  /\ pending # <<>>
  /\ \E env \in EnvsNow :
       LET fc == Head(pending)
           tool_args == IF fc.arguments.d # {} THEN PyDict(fc.arguments.d) ELSE PyDict({})
           out == execute_tool(fc.name, tool_args, args.tools, CHATBOT_ID,
                               args.api_key, env)
           execs == Append(tool_executions,
                           ExecutionRecord(fc.name, tool_args, out.value, iteration))
       IN  /\ tools_run' = tools_run + 1
           /\ net_calls' = net_calls \cup Range(out.net)
           /\ tool_outcome' = [called |-> TRUE, raised |-> out.raised, value |-> out.value,
                               embeddings_key |-> out.embeddings_key,
                               failed |-> ToolFailed(Head(pending).name, tool_args, args.tools, env)]
           /\ IF out.raised \/ ~IsDict(out.value)
              THEN /\ LoopReturns(GeminiFailed(
                          IF out.raised THEN out.exc ELSE ATTRIBUTE_ERROR_GET,
                          iteration, total_tokens_input, total_tokens_output))
                   /\ failed_by' = "tool"
                   /\ UNCHANGED <<tool_executions, messages>>
              ELSE /\ tool_executions' = execs
                   /\ pending' = Tail(pending)
                   /\ pc' = IF Tail(pending) = <<>> THEN "loop_head" ELSE "exec_tools"
                   /\ UNCHANGED <<messages, loop_result, failed_by>>
  /\ UNCHANGED <<entry, args, iteration, total_tokens_input, total_tokens_output,
                 provider_calls, requests_seen, responses>>

GeminiExecTool ==
  /\ UNCHANGED <<mainVars, sideVars>>
  /\ pc = "exec_tools"
  /\ args.provider = "google"
  /\ pending # <<>>
  /\ \E env \in EnvsNow :
       LET fc == Head(pending)
           tool_args == IF fc.arguments.d # {} THEN PyDict(fc.arguments.d) ELSE PyDict({})
           out == execute_tool(fc.name, tool_args, args.tools, CHATBOT_ID,
                               args.api_key, env)
           execs == Append(tool_executions,
                           ExecutionRecord(fc.name, tool_args, out.value, iteration))
           now == SelectSeq(execs, LAMBDA r : r.iteration = iteration)
       IN  /\ tools_run' = tools_run + 1
           /\ net_calls' = net_calls \cup Range(out.net)
           /\ tool_outcome' = [called |-> TRUE, raised |-> out.raised, value |-> out.value,
                               embeddings_key |-> out.embeddings_key,
                               failed |-> ToolFailed(Head(pending).name, tool_args, args.tools, env)]
           /\ IF out.raised \/ ~IsDict(out.value)
              THEN /\ LoopReturns(GeminiFailed(
                          IF out.raised THEN out.exc ELSE ATTRIBUTE_ERROR_GET,
                          iteration, total_tokens_input, total_tokens_output))
                   /\ failed_by' = "tool"
                   /\ UNCHANGED <<tool_executions, messages>>
              ELSE /\ tool_executions' = execs
                   /\ pending' = Tail(pending)
                   /\ IF Tail(pending) = <<>>
                      THEN /\ messages' = Append(messages,
                                 Msg("function", [i \in 1..Len(now) |->
                                        Part(now[i].tool_name, "", now[i].result)]))
                           /\ pc' = "loop_head"
                      ELSE /\ pc' = "exec_tools"
                           /\ UNCHANGED messages
                   /\ UNCHANGED <<loop_result, failed_by>>
  /\ UNCHANGED <<entry, args, iteration, total_tokens_input, total_tokens_output,
                 provider_calls, requests_seen, responses>>

\* the code after the while loop of execute_agent_loop_gemini
GeminiExhausted ==
  /\ UNCHANGED <<mainVars, sideVars>>
  /\ pc = "loop_head"
  /\ args.provider = "google"
  /\ ~(iteration < args.max_iterations)
  /\ LoopReturns(LoopResult(GEMINI_REPHRASE_REPLY, tool_executions,
         LoopUsage({"max_iterations_reached"}, total_tokens_input, total_tokens_output,
                   tool_executions, iteration, "", "", FALSE)))
  /\ UNCHANGED <<entry, args, iteration, tool_executions, messages, total_tokens_input,
                 total_tokens_output, ghostVars>>

\* ------------------------------------------------------------------------
\* The arguments and results of main
\* ------------------------------------------------------------------------
\* a tool record of context_payload["tools"]
ToolRecord(name, enabled, kind, server_url, script_path) ==
  [name |-> name, enabled |-> enabled, provider |-> kind,
   server_url |-> server_url, script_path |-> script_path]

Context(proceed, reason, notify_admin, model_name, default_provider, rag_enabled, tools, openai_api_key, google_api_key, fb_error, fb_limit) ==
  [proceed |-> proceed, reason |-> reason, notify_admin |-> notify_admin,
   model_name |-> model_name, default_provider |-> default_provider,
   rag_enabled |-> rag_enabled, tools |-> tools,
   openai_api_key |-> openai_api_key, google_api_key |-> google_api_key,
   fallback_message_error |-> fb_error, fallback_message_limit |-> fb_limit]

NoContext ==
  Context("absent", PyNone, "absent", "", "", FALSE, <<>>, "", "", PyNone, PyNone)

NoUsage == NoResult.usage_info

MainResult(keys, error, reply, notify, usage, execs, sources) ==
  [returned |-> TRUE, keys |-> keys, error |-> error, reply_text |-> reply,
   should_notify_admin |-> notify, usage_info |-> usage, tool_executions |-> execs,
   retrieved_sources |-> sources]
NoMainResult ==
  [returned |-> FALSE, keys |-> {}, error |-> "", reply_text |-> PyNone,
   should_notify_admin |-> FALSE, usage_info |-> NoUsage, tool_executions |-> <<>>,
   retrieved_sources |-> 0]

\* no flow run has reached the steps after step 1
FlowIdle ==
  /\ usage_summary = [messages |-> 0, tokens |-> 0]
  /\ messages_table = <<>>
  /\ runs = <<>>

\* no helper function is under direct call and step 1 is not running
SideIdle ==
  /\ fn_call = [fn |-> "none"]
  /\ fn_result = <<>>
  /\ webhook_events = <<>>
  /\ invocations = <<>>
  /\ FlowIdle

MainIdle ==
  /\ ctx = NoContext
  /\ provider = ""
  /\ retrieved_chunks = 0
  /\ full_system_prompt = <<>>
  /\ tool_definitions = <<>>
  /\ main_result = NoMainResult

\* ------------------------------------------------------------------------
\* Direct calls of an agent loop
\* ------------------------------------------------------------------------
ToolLists ==
  { <<McpDef("calculate_pricing", "http://mcp_pricing_calculator:3001")>>,
    <<WindmillDef("run_report", "f/tools/report"), SearchDef>> }

LoopArgs(api, model_name, max_iterations, tools, api_key, fb_error, fb_limit) ==
  [provider |-> api, model_name |-> model_name, max_iterations |-> max_iterations,
   tools |-> tools, api_key |-> api_key,
   fallback_message_error |-> fb_error, fallback_message_limit |-> fb_limit]

LoopStart(a) ==
  /\ args = a
  /\ iteration = 0
  /\ tool_executions = <<>>
  /\ messages = <<Msg("user", <<>>)>>
  /\ total_tokens_input = 0
  /\ total_tokens_output = 0
  /\ pending = <<>>
  /\ loop_result = NoResult

GhostStart ==
  /\ responses = <<>>
  /\ tool_outcome = [called |-> FALSE, raised |-> FALSE, value |-> PyDict({}),
                     embeddings_key |-> PyNone, failed |-> FALSE]
  /\ provider_calls = 0
  /\ requests_seen = 0
  /\ tools_run = 0
  /\ net_calls = {}
  /\ failed_by = "none"

InitLoop ==
  /\ entry = "loop"
  /\ pc = "loop_head"
  /\ \E api \in {"openai", "google"}, n \in 0..MaxIter, tools \in ToolLists :
       LoopStart(LoopArgs(api,
                          IF api = "openai" THEN "gpt-4o" ELSE "gemini-pro",
                          n, tools, "fake_key", "Custom error message", "Custom limit message"))
  /\ GhostStart
  /\ MainIdle
  /\ SideIdle

NextLoop ==
  \/ OpenAICall
  \/ OpenAIExecTool
  \/ OpenAIExhausted
  \/ GeminiCall
  \/ GeminiExecTool
  \/ GeminiExhausted

SpecLoop == InitLoop /\ [][NextLoop]_vars

\* ------------------------------------------------------------------------
\* main
\* ------------------------------------------------------------------------
\* the provider resolution with the two substring tests in the other order
ResolveProvider_GptFirst(model_name, default_provider) ==
  IF Contains(Lower(StrChars(model_name)), StrChars("gpt")) THEN "openai"
  ELSE IF Contains(Lower(StrChars(model_name)), StrChars("gemini")) THEN "google"
  ELSE default_provider

\* the provider main resolves from the model name and default_provider
ResolveProvider(model_name, default_provider) ==
  IF Contains(Lower(StrChars(model_name)), StrChars("gemini")) THEN "google"
  ELSE IF Contains(Lower(StrChars(model_name)), StrChars("gpt")) THEN "openai"
  ELSE default_provider

\* prepare_tool_definitions without the test of the enabled flag
prepare_tool_definitions_KeepDisabled(tools) ==
  LET kept == SelectSeq(tools, LAMBDA t : t.provider \in {"mcp", "windmill"})
  IN  [i \in 1..Len(kept) |->
         IF kept[i].provider = "mcp" THEN McpDef(kept[i].name, kept[i].server_url)
         ELSE WindmillDef(kept[i].name, kept[i].script_path)]

\* prepare_tool_definitions
prepare_tool_definitions(tools) ==
  LET kept == SelectSeq(tools, LAMBDA t : t.enabled # "false" /\ t.provider \in {"mcp", "windmill"})
  IN  [i \in 1..Len(kept) |->
         IF kept[i].provider = "mcp" THEN McpDef(kept[i].name, kept[i].server_url)
         ELSE WindmillDef(kept[i].name, kept[i].script_path)]

\* chatbot.get("fallback_message_limit", <default>) and its sibling
FallbackLimit(c) ==
  IF c.fallback_message_limit = PyNone THEN DEFAULT_FALLBACK_LIMIT ELSE c.fallback_message_limit
FallbackError(c) ==
  IF c.fallback_message_error = PyNone THEN DEFAULT_FALLBACK_ERROR ELSE c.fallback_message_error

\* estimate_tokens, on the length of the text
estimate_tokens(len) == IF len \div 4 >= 1 THEN len \div 4 ELSE 1

ENVELOPE_KEYS == {"reply_text", "updated_variables", "usage_info", "tool_executions",
                  "retrieved_sources"}

\* the check of Step 1 with proceed defaulting to true
MainStart_ProceedDefaultsTrue ==
  /\ UNCHANGED sideVars
  /\ pc = "main_start"
  /\ IF ctx.proceed = "false"
     THEN /\ main_result' = MainResult({"error", "reply_text", "should_notify_admin"},
                 IF ctx.reason = PyNone THEN DEFAULT_STEP1_REASON ELSE ctx.reason,
                 STEP1_FAILED_REPLY, ctx.notify_admin = "true", NoUsage, <<>>, 0)
          /\ pc' = "done"
          /\ UNCHANGED provider
     ELSE IF ctx.model_name = PyNone
          THEN \* chatbot.get("model_name", "").lower() on a null model name:
               \* the AttributeError leaves main, which has no handler yet
               /\ pc' = "raised"
               /\ UNCHANGED <<provider, main_result>>
          ELSE /\ provider' = ResolveProvider(ctx.model_name, ctx.default_provider)
               /\ pc' = "main_rag"
               /\ UNCHANGED main_result
  /\ UNCHANGED <<entry, loopVars, ghostVars, ctx, retrieved_chunks, full_system_prompt,
                 tool_definitions>>

\* the check of Step 1 and the provider resolution
MainStart ==
  /\ UNCHANGED sideVars
  /\ pc = "main_start"
  /\ IF ctx.proceed # "true"
     THEN /\ main_result' = MainResult({"error", "reply_text", "should_notify_admin"},
                 IF ctx.reason = PyNone THEN DEFAULT_STEP1_REASON ELSE ctx.reason,
                 STEP1_FAILED_REPLY, ctx.notify_admin = "true", NoUsage, <<>>, 0)
          /\ pc' = "done"
          /\ UNCHANGED provider
     ELSE IF ctx.model_name = PyNone
          THEN \* chatbot.get("model_name", "").lower() on a null model name:
               \* the AttributeError leaves main, which has no handler yet
               /\ pc' = "raised"
               /\ UNCHANGED <<provider, main_result>>
          ELSE /\ provider' = ResolveProvider(ctx.model_name, ctx.default_provider)
               /\ pc' = "main_rag"
               /\ UNCHANGED main_result
  /\ UNCHANGED <<entry, loopVars, ghostVars, ctx, retrieved_chunks, full_system_prompt,
                 tool_definitions>>

\* what the embeddings call and the vector query can do for main's retrieval
RetrievalEnvs ==
  {Env("ok", PyDict({}), "ok", "ok", k) : k \in 0..MaxChunks}
    \cup {Env("ok", PyDict({}), "ok", e, 0) : e \in {"raise", "db_raise"}}

\* build_tool_instructions: "" without records, else the header of the block and
\* one entry for every record it is given (the entry is modelled by the tool's name)
build_tool_instructions(tools) ==
  IF tools = <<>> THEN <<>>
  ELSE <<"tool_instructions">> \o [i \in 1..Len(tools) |-> tools[i].name]

\* RAG retrieval, the system prompt and the canonical tool list
MainRetrieve ==
  /\ UNCHANGED sideVars
  /\ pc = "main_rag"
  /\ \E env \in RetrievalEnvs :
       LET r == IF ctx.rag_enabled THEN retrieve_knowledge(ctx.openai_api_key, env)
                ELSE [chunks |-> 0, net |-> <<>>]
       IN  /\ retrieved_chunks' = r.chunks
           /\ net_calls' = net_calls \cup Range(r.net)
           /\ full_system_prompt' =
                <<"base_prompt", "persona", "user_context">>
                  \o (IF r.chunks > 0 THEN <<"rag_context">> ELSE <<>>)
                  \o build_tool_instructions(ctx.tools)
  /\ tool_definitions' = prepare_tool_definitions(ctx.tools)
                           \o (IF ctx.rag_enabled THEN <<SearchDef>> ELSE <<>>)
  /\ pc' = "main_dispatch"
  /\ UNCHANGED <<entry, loopVars, provider_calls, requests_seen, tools_run, failed_by,
                 responses, tool_outcome, ctx, provider, main_result>>

UnknownProviderError(p) ==
  CASE p = "anthropic" -> "Unknown provider: anthropic"
    [] OTHER -> "Unknown provider"

ErrorResult(error) == MainResult({"error"}, error, PyNone, FALSE, NoUsage, <<>>, 0)

\* `if tool_definitions:` read as `if tools:`
UseAgentLoop_RawTools == ctx.tools # <<>>

\* `if tool_definitions:`
UseAgentLoop == tool_definitions # <<>>

\* the credential check and the choice between agent loop and single call
MainDispatch ==
  /\ UNCHANGED sideVars
  /\ pc = "main_dispatch"
  /\ LET key == IF provider = "openai" THEN ctx.openai_api_key ELSE ctx.google_api_key
     IN  IF provider \notin {"openai", "google"} \/ key = ""
         THEN /\ main_result' = ErrorResult(
                    CASE provider = "openai" -> "Missing OpenAI API Key"
                      [] provider = "google" -> "Missing Google API Key"
                      [] OTHER -> UnknownProviderError(provider))
              /\ pc' = "done"
              /\ UNCHANGED loopVars
         ELSE IF UseAgentLoop
              THEN /\ args' = LoopArgs(provider, ctx.model_name, MAIN_MAX_ITERATIONS,
                                       tool_definitions, key,
                                       IF provider = "google" THEN FallbackError(ctx) ELSE PyNone,
                                       IF provider = "google" THEN FallbackLimit(ctx) ELSE PyNone)
                   /\ iteration' = 0
                   /\ tool_executions' = <<>>
                   /\ messages' = <<Msg("user", <<>>)>>
                   /\ total_tokens_input' = 0
                   /\ total_tokens_output' = 0
                   /\ pc' = "loop_head"
                   /\ UNCHANGED <<pending, loop_result, main_result>>
              ELSE /\ pc' = "single_call"
                   /\ UNCHANGED <<loopVars, main_result>>
  /\ UNCHANGED <<entry, ghostVars, ctx, provider, retrieved_chunks, full_system_prompt,
                 tool_definitions>>

\* the except clause of main
MainExcept(msg) ==
  MainResult(ENVELOPE_KEYS, "",
             IF is_limit_error(msg) THEN FallbackLimit(ctx) ELSE FallbackError(ctx),
             FALSE,
             [NoUsage EXCEPT !.keys = {"provider", "model", "error", "is_limit_error"},
                             !.provider = provider, !.model = ctx.model_name,
                             !.error = msg, !.is_limit_error = is_limit_error(msg)],
             <<>>, retrieved_chunks)

SingleUsage(tin, tout) ==
  [NoUsage EXCEPT !.keys = {"provider", "model", "tokens_input", "tokens_output",
                            "rag_used", "chunks_retrieved"},
                  !.provider = provider, !.model = ctx.model_name,
                  !.tokens_input = tin, !.tokens_output = tout,
                  !.rag_used = ("rag_context" \in Range(full_system_prompt)),
                  !.chunks_retrieved = retrieved_chunks]

\* len() of the texts estimate_tokens is applied to
TextLen(text) ==
  CASE text = FINAL_TEXT -> 22
    [] text = DEFAULT_FALLBACK_ERROR -> 83
    [] OTHER -> 0
\* len(final_input): the prompt blocks and the user message
FinalInputLen(prompt) == 40 * (Len(prompt) + 1)

\* the simple LLM call without tools, and the envelope main returns after it
MainSingleCall ==
  /\ UNCHANGED sideVars
  /\ pc = "single_call"
  /\ provider_calls' = provider_calls + 1
  /\ net_calls' = net_calls \cup {"provider"}
  /\ pc' = "done"
  /\ \/ \E msg \in ProviderErrors :
          /\ main_result' = MainExcept(msg)
          /\ failed_by' = "provider"
     \/ \E text \in {FINAL_TEXT, PyNone}, usage \in {TRUE, FALSE} :
          IF provider = "openai"
          THEN IF usage
               THEN /\ main_result' = MainResult(ENVELOPE_KEYS, "", text, FALSE,
                          SingleUsage(USAGE.prompt_tokens, USAGE.completion_tokens),
                          <<>>, retrieved_chunks)
                    /\ UNCHANGED failed_by
               ELSE /\ main_result' = MainExcept("'NoneType' object has no attribute 'prompt_tokens'")
                    /\ failed_by' = "response"
          ELSE IF usage
               THEN /\ main_result' = MainResult(ENVELOPE_KEYS, "", text, FALSE,
                          SingleUsage(USAGE.prompt_tokens, USAGE.completion_tokens),
                          <<>>, retrieved_chunks)
                    /\ UNCHANGED failed_by
               ELSE IF text = PyNone
                    THEN /\ main_result' = MainExcept("object of type 'NoneType' has no len()")
                         /\ failed_by' = "response"
                    ELSE /\ main_result' = MainResult(ENVELOPE_KEYS, "", text, FALSE,
                               SingleUsage(
                                 estimate_tokens(FinalInputLen(full_system_prompt)),
                                 estimate_tokens(TextLen(text))),
                               <<>>, retrieved_chunks)
                         /\ UNCHANGED failed_by
  /\ UNCHANGED <<entry, loopVars, requests_seen, tools_run, responses, tool_outcome, ctx,
                 provider, retrieved_chunks, full_system_prompt, tool_definitions>>

\* the code of main after the agent loop has returned
MainAfterLoop ==
  /\ UNCHANGED sideVars
  /\ pc = "loop_returned"
  /\ entry = "main"
  /\ main_result' = MainResult(ENVELOPE_KEYS, "", loop_result.reply_text, FALSE,
        [loop_result.usage_info EXCEPT
            !.keys = @ \cup {"rag_used", "chunks_retrieved"},
            !.rag_used = ("rag_context" \in Range(full_system_prompt)),
            !.chunks_retrieved = retrieved_chunks],
        loop_result.tool_executions, retrieved_chunks)
  /\ pc' = "done"
  /\ UNCHANGED <<entry, loopVars, ghostVars, ctx, provider, retrieved_chunks,
                 full_system_prompt, tool_definitions>>

\* ------------------------------------------------------------------------
\* Calls of main
\* ------------------------------------------------------------------------
ModelChoices ==
  { <<"gemini-pro", "openai">>, <<"GPT-4o", "google">>,
    <<"claude-3", "google">>, <<"claude-3", "anthropic">>, <<PyNone, "google">>,
    <<"Gemini-GPT", "openai">> }

ContextToolLists ==
  { <<>>,
    <<ToolRecord("calculate_pricing", "true", "mcp", "http://mcp_pricing_calculator:3001", PyNone),
      ToolRecord("run_report", "false", "windmill", PyNone, "f/tools/report")>>,
    <<ToolRecord("crm_lookup", "true", "custom", PyNone, PyNone)>> }

Contexts ==
  { Context(p, r, n, "gemini-pro", "google", TRUE, tools, "fake_openai_key",
            "fake_google_key", PyNone, PyNone) :
      tools \in ContextToolLists,
      p \in {"false", "absent"}, r \in {"Duplicate - Already Processed", PyNone},
      n \in {"true", "false", "absent"} }
  \cup
  { Context("true", PyNone, "absent", m[1], m[2], rag, tools, ok, gk, fb[1], fb[2]) :
      m \in ModelChoices, rag \in BOOLEAN, tools \in ContextToolLists,
      ok \in {"", "fake_openai_key"}, gk \in {"", "fake_google_key"},
      fb \in {<<PyNone, PyNone>>, <<"Custom error message", "Custom limit message">>} }

Init ==
  /\ entry = "main"
  /\ pc = "main_start"
  /\ ctx \in Contexts
  /\ provider = ""
  /\ retrieved_chunks = 0
  /\ full_system_prompt = <<>>
  /\ tool_definitions = <<>>
  /\ main_result = NoMainResult
  /\ LoopStart(LoopArgs("", "", 0, <<>>, "", PyNone, PyNone))
  /\ GhostStart
  /\ SideIdle

Next ==
  \/ MainStart
  \/ MainRetrieve
  \/ MainDispatch
  \/ MainSingleCall
  \/ MainAfterLoop
  \/ OpenAICall
  \/ OpenAIExecTool
  \/ OpenAIExhausted
  \/ GeminiCall
  \/ GeminiExecTool
  \/ GeminiExhausted

Spec == Init /\ [][Next]_vars

\* ------------------------------------------------------------------------
\* JSON values of a parameter schema: a scalar, a mapping (a set of
\* <<key, value>> pairs) or a list
\* ------------------------------------------------------------------------
JScalar(v) == [t |-> "scalar", v |-> v, d |-> {}, items |-> <<>>]
JDict(pairs) == [t |-> "dict", v |-> "", d |-> pairs, items |-> <<>>]
JList(items) == [t |-> "list", v |-> "", d |-> {}, items |-> items]

\* the values `not params` is true of
JFalsy(x) ==
  \/ x.t = "scalar" /\ Falsy(x.v)
  \/ x.t = "dict" /\ x.d = {}
  \/ x.t = "list" /\ x.items = <<>>

VALID_FIELDS == {"type", "properties", "required", "description", "enum", "items", "minimum",
                 "maximum", "minLength", "maxLength", "pattern", "format", "default"}

STRIPPED_FIELDS == {"additionalproperties", "additionalitems"}

\* key.lower().replace("_", "") in {"additionalproperties", "additionalitems"}
IsStrippedKey(key) ==
  \E f \in STRIPPED_FIELDS :
    SelectSeq(Lower(StrChars(key)), LAMBDA c : c # "_") = StrChars(f)

RECURSIVE clean_dict(_)
\* clean_dict of sanitize_gemini_parameters
clean_dict(x) ==
  IF x.t # "dict" THEN x
  ELSE LET kept == {p \in x.d :
                      /\ ~IsStrippedKey(p[1])
                      /\ p[1] \notin VALID_FIELDS => (p[2].t = "dict" /\ HasKey(p[2], "type"))}
           cleaned(value) ==
             CASE value.t = "dict" -> clean_dict(value)
               [] value.t = "list" ->
                    JList([i \in 1..Len(value.items) |->
                             IF value.items[i].t = "dict" THEN clean_dict(value.items[i])
                             ELSE value.items[i]])
               [] OTHER -> value
       IN  JDict({<<p[1], cleaned(p[2])>> : p \in kept})

\* sanitize_gemini_parameters without the default for a missing properties key
sanitize_gemini_parameters_NoProperties(params) ==
  IF JFalsy(params) \/ params.t # "dict"
  THEN JDict({<<"type", JScalar("object")>>, <<"properties", JDict({})>>})
  ELSE LET result == clean_dict(params)
       IN  IF HasKey(result, "type") THEN result
           ELSE JDict(result.d \cup {<<"type", JScalar("object")>>})

\* sanitize_gemini_parameters
sanitize_gemini_parameters(params) ==
  IF JFalsy(params) \/ params.t # "dict"
  THEN JDict({<<"type", JScalar("object")>>, <<"properties", JDict({})>>})
  ELSE LET result == clean_dict(params)
           with_type == IF HasKey(result, "type") THEN result.d
                        ELSE result.d \cup {<<"type", JScalar("object")>>}
           with_properties == IF HasKey(result, "properties") THEN with_type
                              ELSE with_type \cup {<<"properties", JDict({})>>}
       IN  JDict(with_properties)

\* ------------------------------------------------------------------------
\* Direct calls of the helper functions
\* ------------------------------------------------------------------------
\* largest number of records in a list of tool records
MaxTools == 2

TOOL_NAMES == <<"calculate_pricing", "run_report", "crm_lookup">>

\* the lists of tool records: the record at position i is named TOOL_NAMES[i]
ToolRecordLists ==
  UNION { { [i \in 1..n |-> ToolRecord(TOOL_NAMES[i], e[i], k[i],
                                       "http://mcp_pricing_calculator:3001", "f/tools/report")] :
              e \in [1..n -> {"true", "false", "absent"}],
              k \in [1..n -> {"mcp", "windmill", "custom"}] } : n \in 0..MaxTools }

TypedProperty == JDict({<<"type", JScalar("string")>>})

\* sub-schemas of a property
PropertySchemas ==
  { JDict({<<"type", JScalar("string")>>, <<"description", JScalar("The search query")>>}),
    JDict({<<"type", JScalar("string")>>, <<"additional_properties", JScalar("false")>>,
           <<"title", JScalar("Query")>>}),
    JDict({<<"description", JScalar("The search query")>>}),
    JDict({<<"properties", JDict({<<"street", TypedProperty>>})>>}),
    JDict({<<"type", JScalar("array")>>,
           <<"items", JDict({<<"type", JScalar("object")>>,
                             <<"Additional_Items", JScalar("false")>>,
                             <<"properties", JDict({<<"street", TypedProperty>>})>>})>>}),
    JDict({<<"type", JScalar("array")>>,
           <<"enum", JList(<<JList(<<JDict({<<"additionalProperties", JScalar("true")>>})>>)>>)>>}),
    JDict({<<"type", JScalar("string")>>,
           <<"enum", JList(<<JScalar("a"), JDict({<<"additionalProperties", JScalar("true")>>})>>)>>}) }

\* the parameter schemas sanitize_gemini_parameters is called with
ParameterSchemas ==
  { JDict(t \cup p \cup x) :
      t \in {{}, {<<"type", JScalar("object")>>}},
      p \in {{}, {<<"properties", JDict({})>>}}
              \cup {{<<"properties", JDict({<<"query", s>>})>>} : s \in PropertySchemas},
      x \in {{}, {<<"additionalProperties", JScalar("false")>>},
             {<<"required", JList(<<JScalar("query")>>)>>},
             {<<"query", TypedProperty>>}, {<<"title", JScalar("Parameters")>>}} }
    \cup {JScalar(PyNone), JScalar("object"), JList(<<>>), JList(<<TypedProperty>>)}

MCP_TOOL_NAMES == {"calculate_pricing", "contact_owner"}
McpServerUrls ==
  {PyNone, "", "http://mcp_pricing_calculator:3001", "http://mcp_pricing_calculator:3001/",
   "http://mcp_pricing_calculator:3001//"}
McpArguments == PyDict({<<"message_volume", "3000">>, <<"tier", "basic">>})
\* the arguments the model supplies, with and without a chatbot_id of its own
McpArgumentChoices ==
  { McpArguments,
    PyDict({<<"tier", "basic">>, <<"chatbot_id", "chatbot-999">>}),
    PyDict({<<"chatbot_id", CHATBOT_ID>>}) }

\* what the MCP server and the network do with the POST
McpEnvs ==
  { Env(h, b, "ok", "ok", 0) :
      h \in {"ok", "created", "not_modified", "not_found", "server_error"},
      b \in {PlainEnv.body, PyList} }
    \cup { Env(h, NoJsonBody(x), "ok", "ok", 0) :
             h \in {"ok", "no_content", "not_modified"}, x \in {"RequestException", "ValueError"} }
    \cup { Env(h, PyDict({}), "ok", "ok", 0) : h \in {"timeout", "connection_error"} }

FnCalls ==
  {[fn |-> "prepare_tool_definitions", tools |-> tools] : tools \in ToolRecordLists}
    \cup {[fn |-> "sanitize_gemini_parameters", params |-> s] : s \in ParameterSchemas}
    \cup {[fn |-> "execute_mcp_tool", tool_name |-> n, mcp_server_url |-> u, env |-> e,
            arguments |-> a] :
            n \in MCP_TOOL_NAMES, u \in McpServerUrls, e \in McpEnvs, a \in McpArgumentChoices}

\* prepare_tool_definitions(tools, chatbot_id)
CallPrepareToolDefinitions ==
  /\ pc = "fn_start"
  /\ fn_call.fn = "prepare_tool_definitions"
  /\ fn_result' = <<prepare_tool_definitions(fn_call.tools)>>
  /\ pc' = "fn_done"
  /\ UNCHANGED <<entry, loopVars, ghostVars, mainVars, fn_call, step1Vars, flowVars>>

\* sanitize_gemini_parameters(params)
CallSanitize ==
  /\ pc = "fn_start"
  /\ fn_call.fn = "sanitize_gemini_parameters"
  /\ fn_result' = <<sanitize_gemini_parameters(fn_call.params)>>
  /\ pc' = "fn_again"
  /\ UNCHANGED <<entry, loopVars, ghostVars, mainVars, fn_call, step1Vars, flowVars>>

\* sanitize_gemini_parameters applied to what it returned
CallSanitizeAgain ==
  /\ pc = "fn_again"
  /\ fn_call.fn = "sanitize_gemini_parameters"
  /\ fn_result' = Append(fn_result, sanitize_gemini_parameters(fn_result[1]))
  /\ pc' = "fn_done"
  /\ UNCHANGED <<entry, loopVars, ghostVars, mainVars, fn_call, step1Vars, flowVars>>

\* execute_mcp_tool(tool_name, metadata, arguments, chatbot_id)
CallMcp ==
  /\ pc = "fn_start"
  /\ fn_call.fn = "execute_mcp_tool"
  /\ LET r == execute_mcp_tool(fn_call.tool_name, McpDef(fn_call.tool_name, fn_call.mcp_server_url),
                                fn_call.arguments, CHATBOT_ID, fn_call.env)
     IN  fn_result' = <<[raised |-> r.raised, value |-> r.value,
                         posts |-> IF r.net = <<>> THEN <<>>
                                   ELSE <<tool_endpoint(fn_call.mcp_server_url, fn_call.tool_name)>>,
                         bodies |-> IF r.net = <<>> THEN <<>>
                                    ELSE <<mcp_payload(fn_call.arguments, CHATBOT_ID)>>]>>
  /\ pc' = "fn_done"
  /\ UNCHANGED <<entry, loopVars, ghostVars, mainVars, fn_call, step1Vars, flowVars>>

InitFn ==
  /\ entry = "fn"
  /\ pc = "fn_start"
  /\ fn_call \in FnCalls
  /\ fn_result = <<>>
  /\ webhook_events = <<>>
  /\ invocations = <<>>
  /\ FlowIdle
  /\ LoopStart(LoopArgs("", "", 0, <<>>, "", PyNone, PyNone))
  /\ GhostStart
  /\ MainIdle

NextFn ==
  \/ CallPrepareToolDefinitions
  \/ CallSanitize
  \/ CallSanitizeAgain
  \/ CallMcp

SpecFn == InitFn /\ [][NextFn]_vars

\* ------------------------------------------------------------------------
\* Step 1, the context loader (1_whatsapp_context_loading.main), run by
\* several flow runs over the table webhook_events.  A row of the table is
\* [whatsapp_message_id, status]; its id is its position in the table.
\* ------------------------------------------------------------------------
MaxInvocations == 2
MESSAGE_IDS == {"wamid.test.001", "wamid.test.002"}
EVENT_STATUSES == {"processing", "completed", "failed"}

WebhookEvent(message_id, status) == [whatsapp_message_id |-> message_id, status |-> status]

\* SELECT id, status FROM webhook_events WHERE whatsapp_message_id = %s: the id, 0 for no row
EventIdOf(events, message_id) ==
  IF \E r \in 1..Len(events) : events[r].whatsapp_message_id = message_id
  THEN CHOOSE r \in 1..Len(events) : events[r].whatsapp_message_id = message_id
  ELSE 0

\* what main of step 1 returns; webhook_event_id 0 and notify_admin FALSE stand
\* for the absent keys
\* the limits of the organization: message_limit_monthly and token_limit_monthly
MessageLimitMonthly == 2
TokenLimitMonthly == 3

\* _check_usage_limits, on the row get_current_usage returns
_check_usage_limits(usage, message_limit, token_limit) ==
  LET messages_remaining == message_limit - usage.messages
      tokens_remaining == token_limit - usage.tokens
  IN  [present |-> TRUE,
       has_quota |-> ~(usage.messages >= message_limit) /\ ~(usage.tokens >= token_limit),
       limit_type |-> IF usage.messages >= message_limit THEN "messages"
                      ELSE IF usage.tokens >= token_limit THEN "tokens" ELSE PyNone,
       messages_used |-> usage.messages,
       tokens_used |-> usage.tokens,
       messages_remaining |-> IF messages_remaining > 0 THEN messages_remaining ELSE 0,
       tokens_remaining |-> IF tokens_remaining > 0 THEN tokens_remaining ELSE 0]

\* the key usage_info is absent
NoUsageInfo ==
  [present |-> FALSE, has_quota |-> FALSE, limit_type |-> PyNone, messages_used |-> 0,
   tokens_used |-> 0, messages_remaining |-> 0, tokens_remaining |-> 0]

Step1NotReturned ==
  [returned |-> FALSE, raised |-> FALSE, proceed |-> FALSE, reason |-> "",
   webhook_event_id |-> 0, notify_admin |-> FALSE, usage_info |-> NoUsageInfo]
Step1Result(proceed, reason, webhook_event_id, notify_admin) ==
  [returned |-> TRUE, raised |-> FALSE, proceed |-> proceed, reason |-> reason,
   webhook_event_id |-> webhook_event_id, notify_admin |-> notify_admin,
   usage_info |-> NoUsageInfo]
Step1Raised ==
  [returned |-> TRUE, raised |-> TRUE, proceed |-> FALSE, reason |-> "",
   webhook_event_id |-> 0, notify_admin |-> FALSE, usage_info |-> NoUsageInfo]

\* one call of main: where it is, the status its lookup read ("" before the
\* lookup, "absent" for no row), the event id it holds and what it returned
Invocation(message_id) ==
  [message_id |-> message_id, at |-> "connect", status |-> "", webhook_event_id |-> 0,
   result |-> Step1NotReturned]

Step1Frame == UNCHANGED <<entry, pc, loopVars, ghostVars, mainVars, fnVars, flowVars>>

\* the flow calls main(whatsapp_phone_id, user_phone, message_id, ...)
Step1Invoke(message_id) ==
  /\ Len(invocations) < MaxInvocations
  /\ invocations' = Append(invocations, Invocation(message_id))
  /\ UNCHANGED webhook_events
  /\ Step1Frame

\* psycopg2.connect: the early return when it raises
Step1Connect(i, connected) ==
  /\ invocations[i].at = "connect"
  /\ invocations' =
       [invocations EXCEPT ![i] =
          IF connected THEN [@ EXCEPT !.at = "lookup"]
          ELSE [@ EXCEPT !.at = "returned",
                         !.result = Step1Result(FALSE, "DB Connection Failed", 0, TRUE)]]
  /\ UNCHANGED webhook_events
  /\ Step1Frame

\* Step 1A with the completed test left out
Step1Lookup_NoCompletedTest(i) ==
  /\ invocations[i].at = "lookup"
  /\ LET id == EventIdOf(webhook_events, invocations[i].message_id)
     IN  invocations' =
           [invocations EXCEPT ![i] =
              IF id # 0
              THEN [@ EXCEPT !.at = "load", !.status = webhook_events[id].status,
                             !.webhook_event_id = id]
              ELSE [@ EXCEPT !.at = "create", !.status = "absent"]]
  /\ UNCHANGED webhook_events
  /\ Step1Frame

\* Step 1A, the lookup of the webhook event
Step1Lookup(i) ==
  /\ invocations[i].at = "lookup"
  /\ LET id == EventIdOf(webhook_events, invocations[i].message_id)
     IN  invocations' =
           [invocations EXCEPT ![i] =
              IF id # 0
              THEN IF webhook_events[id].status = "completed"
                   THEN [@ EXCEPT !.at = "returned", !.status = "completed",
                                  !.webhook_event_id = id,
                                  !.result = Step1Result(FALSE, "Already Processed", id, FALSE)]
                   ELSE [@ EXCEPT !.at = "load", !.status = webhook_events[id].status,
                                  !.webhook_event_id = id]
              ELSE [@ EXCEPT !.at = "create", !.status = "absent"]]
  /\ UNCHANGED webhook_events
  /\ Step1Frame

\* INSERT ... 'processing' ... ON CONFLICT (whatsapp_message_id) DO UPDATE SET
\* status = 'processing' RETURNING id, and the commit
Step1Create(i) ==
  /\ invocations[i].at = "create"
  /\ LET id == EventIdOf(webhook_events, invocations[i].message_id)
     IN  IF id # 0
         THEN /\ webhook_events' = [webhook_events EXCEPT ![id].status = "processing"]
              /\ invocations' = [invocations EXCEPT ![i].at = "load", ![i].webhook_event_id = id]
         ELSE /\ webhook_events' =
                   Append(webhook_events, WebhookEvent(invocations[i].message_id, "processing"))
              /\ invocations' = [invocations EXCEPT ![i].at = "load",
                                                    ![i].webhook_event_id = Len(webhook_events) + 1]
  /\ Step1Frame

\* what the rest of main finds in the database
STEP1_OUTCOMES == {"no_bot", "inactive", "manual", "ok", "db_error"}

_mark_webhook_failed(events, webhook_event_id) ==
  [events EXCEPT ![webhook_event_id].status = "failed"]
_mark_webhook_completed(events, webhook_event_id) ==
  [events EXCEPT ![webhook_event_id].status = "completed"]

\* Steps 1B to 1F with the usage check of Step 1C testing messages only
Step1Load_MessagesOnly(i, outcome) ==
  /\ invocations[i].at = "load"
  /\ LET id == invocations[i].webhook_event_id
         returns(r) == [invocations EXCEPT ![i].at = "returned", ![i].result = r]
         usage == _check_usage_limits(usage_summary, MessageLimitMonthly, TokenLimitMonthly)
     IN  CASE outcome = "no_bot" ->
                /\ webhook_events' = _mark_webhook_failed(webhook_events, id)
                /\ invocations' = returns(Step1Result(FALSE, "Chatbot not found", 0, TRUE))
           [] outcome = "inactive" ->
                /\ webhook_events' = _mark_webhook_failed(webhook_events, id)
                /\ invocations' = returns(Step1Result(FALSE, "Service Inactive", 0, TRUE))
           [] outcome = "db_error" ->
                /\ UNCHANGED webhook_events
                /\ invocations' = returns(Step1Raised)
           [] usage.limit_type = "messages" ->
                /\ webhook_events' = _mark_webhook_failed(webhook_events, id)
                /\ invocations' =
                     returns([Step1Result(FALSE, "Usage Limit Exceeded", 0, TRUE)
                                EXCEPT !.usage_info = usage])
           [] outcome = "manual" ->
                /\ webhook_events' = _mark_webhook_completed(webhook_events, id)
                /\ invocations' =
                     returns(Step1Result(FALSE, "Manual Mode - Human Agent Required", 0, FALSE))
           [] OTHER ->
                /\ UNCHANGED webhook_events
                /\ invocations' =
                     returns([Step1Result(TRUE, "", id, FALSE) EXCEPT !.usage_info = usage])
  /\ Step1Frame

\* Steps 1B to 1F and the return of the context payload; outcome is what the
\* database holds for the chatbot and the contact, or an error of the database
Step1Load(i, outcome) ==
  /\ invocations[i].at = "load"
  /\ LET id == invocations[i].webhook_event_id
         returns(r) == [invocations EXCEPT ![i].at = "returned", ![i].result = r]
         usage == _check_usage_limits(usage_summary, MessageLimitMonthly, TokenLimitMonthly)
     IN  CASE outcome = "no_bot" ->
                /\ webhook_events' = _mark_webhook_failed(webhook_events, id)
                /\ invocations' = returns(Step1Result(FALSE, "Chatbot not found", 0, TRUE))
           [] outcome = "inactive" ->
                /\ webhook_events' = _mark_webhook_failed(webhook_events, id)
                /\ invocations' = returns(Step1Result(FALSE, "Service Inactive", 0, TRUE))
           [] outcome = "db_error" ->
                /\ UNCHANGED webhook_events
                /\ invocations' = returns(Step1Raised)
           [] ~usage.has_quota ->
                /\ webhook_events' = _mark_webhook_failed(webhook_events, id)
                /\ invocations' =
                     returns([Step1Result(FALSE, "Usage Limit Exceeded", 0, TRUE)
                                EXCEPT !.usage_info = usage])
           [] outcome = "manual" ->
                /\ webhook_events' = _mark_webhook_completed(webhook_events, id)
                /\ invocations' =
                     returns(Step1Result(FALSE, "Manual Mode - Human Agent Required", 0, FALSE))
           [] OTHER ->
                /\ UNCHANGED webhook_events
                /\ invocations' =
                     returns([Step1Result(TRUE, "", id, FALSE) EXCEPT !.usage_info = usage])
  /\ Step1Frame

\* the flow run that proceeded ends: its event is marked completed or failed
FlowRunEnds(id, status) ==
  /\ id \in 1..Len(webhook_events)
  /\ webhook_events[id].status = "processing"
  /\ \E i \in 1..Len(invocations) :
       invocations[i].result.proceed /\ invocations[i].result.webhook_event_id = id
  /\ webhook_events' = [webhook_events EXCEPT ![id].status = status]
  /\ UNCHANGED invocations
  /\ Step1Frame

\* the usage of the organization when the flow runs start
UsageRows ==
  { [messages |-> m, tokens |-> t] :
      m \in {0, MessageLimitMonthly - 1, MessageLimitMonthly, MessageLimitMonthly + 1},
      t \in {0, TokenLimitMonthly, TokenLimitMonthly + 1} }

\* the webhook server has recorded the first message, or no message yet
InitStep1 ==
  /\ entry = "step1"
  /\ pc = "step1"
  /\ webhook_events \in {<<>>} \cup {<<WebhookEvent("wamid.test.001", s)>> : s \in EVENT_STATUSES}
  /\ invocations = <<>>
  /\ usage_summary \in UsageRows
  /\ messages_table = <<>>
  /\ runs = <<>>
  /\ fn_call = [fn |-> "none"]
  /\ fn_result = <<>>
  /\ LoopStart(LoopArgs("", "", 0, <<>>, "", PyNone, PyNone))
  /\ GhostStart
  /\ MainIdle

NextStep1 ==
  \/ \E m \in MESSAGE_IDS : Step1Invoke(m)
  \/ \E i \in 1..Len(invocations), connected \in BOOLEAN : Step1Connect(i, connected)
  \/ \E i \in 1..Len(invocations) : Step1Lookup(i)
  \/ \E i \in 1..Len(invocations) : Step1Create(i)
  \/ \E i \in 1..Len(invocations), outcome \in STEP1_OUTCOMES : Step1Load(i, outcome)
  \/ \E id \in 1..Len(webhook_events), s \in {"completed", "failed"} : FlowRunEnds(id, s)

SpecStep1 == InitStep1 /\ [][NextStep1]_vars

\* ------------------------------------------------------------------------
\* The flow after step 1: step 2 (LLM processing), step 3 (send the reply to
\* WhatsApp), step 4 (save the chat history) and step 5 (log the usage), run
\* for each invocation of step 1 that returned
\* ------------------------------------------------------------------------
\* what step 2 returned, as the later steps read it: whether the key "error"
\* is present, reply_text ("" when absent), whether usage_info.error is set,
\* and the token counts of usage_info (0 when absent)
LlmResult(has_error, reply_text, usage_error, tokens_input, tokens_output) ==
  [has_error |-> has_error, reply_text |-> reply_text, usage_error |-> usage_error,
   tokens_input |-> tokens_input, tokens_output |-> tokens_output]
NoLlmResult == LlmResult(FALSE, "", FALSE, 0, 0)

\* what step 3 returned; present is false when it raised
SendResult(present, success, has_error) ==
  [present |-> present, success |-> success, has_error |-> has_error]

\* what steps 4 and 5 return
NoStepResult == [returned |-> FALSE, success |-> FALSE, error |-> ""]
StepResult(success, error) == [returned |-> TRUE, success |-> success, error |-> error]

Run ==
  [at |-> "step2", llm_result |-> NoLlmResult, send_result |-> SendResult(FALSE, FALSE, FALSE),
   history_result |-> NoStepResult, usage_result |-> NoStepResult]

\* check_previous_steps(context_payload, llm_result, send_result): the error
\* of the dict it returns, "" for None
check_previous_steps_NoStep3(context_payload, llm_result, send_result) ==
  IF ~context_payload.proceed THEN "Cannot proceed - Step 1 failed"
  ELSE IF llm_result.has_error THEN "Cannot proceed - Step 2 failed"
  ELSE ""

check_previous_steps(context_payload, llm_result, send_result) ==
  IF ~context_payload.proceed THEN "Cannot proceed - Step 1 failed"
  ELSE IF llm_result.has_error THEN "Cannot proceed - Step 2 failed"
  ELSE IF send_result.present /\ ~send_result.success THEN "Cannot proceed - Step 3 failed"
  ELSE ""

FlowFrame == UNCHANGED <<entry, pc, loopVars, ghostVars, mainVars, fnVars, step1Vars>>

STEP2_OUTCOMES == {"answer", "fallback", "unknown_provider"}

\* step 2: main of 2_whatsapp_llm_processing, by the shape of what it returns
FlowStep2(i, outcome) ==
  /\ i <= Len(invocations)
  /\ invocations[i].result.returned /\ ~invocations[i].result.raised
  /\ runs[i].at = "step2"
  /\ runs' = [runs EXCEPT ![i].at = "step3",
                          ![i].llm_result =
                             IF ~invocations[i].result.proceed
                             THEN LlmResult(TRUE, STEP1_FAILED_REPLY, FALSE, 0, 0)
                             ELSE CASE outcome = "answer" -> LlmResult(FALSE, FINAL_TEXT, FALSE, 1, 1)
                                    [] outcome = "fallback" ->
                                         LlmResult(FALSE, DEFAULT_FALLBACK_ERROR, TRUE, 0, 0)
                                    [] OTHER -> LlmResult(TRUE, "", FALSE, 0, 0)]
  /\ UNCHANGED <<usage_summary, messages_table>>
  /\ FlowFrame

\* step 3: main of 3_1_send_reply_to_whatsapp; a context without the chatbot
\* or the user raises KeyError
FlowStep3(i, delivered) ==
  /\ runs[i].at = "step3"
  /\ runs' = [runs EXCEPT ![i].at = "step4",
                          ![i].send_result =
                             IF ~invocations[i].result.proceed THEN SendResult(FALSE, FALSE, FALSE)
                             ELSE IF runs[i].llm_result.reply_text = ""
                                  THEN SendResult(TRUE, FALSE, FALSE)
                                  ELSE SendResult(TRUE, delivered, ~delivered)]
  /\ UNCHANGED <<usage_summary, messages_table>>
  /\ FlowFrame

\* step 4: main of 4_save_chat_history
FlowStep4(i, db_ok) ==
  /\ runs[i].at = "step4"
  /\ LET step_error == check_previous_steps(invocations[i].result, runs[i].llm_result,
                                            runs[i].send_result)
     IN  IF step_error # ""
         THEN /\ runs' = [runs EXCEPT ![i].at = "step5",
                                      ![i].history_result = StepResult(FALSE, step_error)]
              /\ UNCHANGED messages_table
         ELSE IF db_ok
              THEN /\ messages_table' =
                        messages_table \o <<[run |-> i, role |-> "user"]>>
                          \o (IF runs[i].llm_result.reply_text # ""
                              THEN <<[run |-> i, role |-> "assistant"]>> ELSE <<>>)
                   /\ runs' = [runs EXCEPT ![i].at = "step5",
                                           ![i].history_result = StepResult(TRUE, "")]
              ELSE /\ UNCHANGED messages_table
                   /\ runs' = [runs EXCEPT ![i].at = "step5",
                                           ![i].history_result = StepResult(FALSE, "DB Error")]
  /\ UNCHANGED usage_summary
  /\ FlowFrame

\* max(estimate_tokens(text), 10)
EstimatedTokens(len) == IF estimate_tokens(len) >= 10 THEN estimate_tokens(len) ELSE 10

\* tokens_total of step 5: the counts of usage_info, estimated when both are 0
\* (llm_result has no key user_message)
TokensTotal(llm_result) ==
  IF llm_result.tokens_input = 0 /\ llm_result.tokens_output = 0
  THEN EstimatedTokens(0) + EstimatedTokens(TextLen(llm_result.reply_text))
  ELSE llm_result.tokens_input + llm_result.tokens_output

\* step 5: main of 5_log_usage
FlowStep5(i, db_ok) ==
  /\ runs[i].at = "step5"
  /\ LET step_error == check_previous_steps(invocations[i].result, runs[i].llm_result,
                                            runs[i].send_result)
     IN  IF step_error # ""
         THEN /\ runs' = [runs EXCEPT ![i].at = "done",
                                      ![i].usage_result = StepResult(FALSE, step_error)]
              /\ UNCHANGED usage_summary
         ELSE IF db_ok
              THEN /\ usage_summary' =
                        [messages |-> usage_summary.messages + 1,
                         tokens |-> usage_summary.tokens + TokensTotal(runs[i].llm_result)]
                   /\ runs' = [runs EXCEPT ![i].at = "done",
                                           ![i].usage_result = StepResult(TRUE, "")]
              ELSE /\ UNCHANGED usage_summary
                   /\ runs' = [runs EXCEPT ![i].at = "done",
                                           ![i].usage_result = StepResult(FALSE, "Usage Logging Error")]
  /\ UNCHANGED messages_table
  /\ FlowFrame

\* the flow runs start with the organization under its limits
InitFlow ==
  /\ entry = "flow"
  /\ pc = "flow"
  /\ webhook_events = <<>>
  /\ invocations = <<>>
  /\ usage_summary \in {[messages |-> m, tokens |-> 0] : m \in {0, MessageLimitMonthly - 1}}
  /\ messages_table = <<>>
  /\ runs = [i \in 1..MaxInvocations |-> Run]
  /\ fn_call = [fn |-> "none"]
  /\ fn_result = <<>>
  /\ LoopStart(LoopArgs("", "", 0, <<>>, "", PyNone, PyNone))
  /\ GhostStart
  /\ MainIdle

NextFlow ==
  \/ \E m \in MESSAGE_IDS : Step1Invoke(m)
  \/ \E i \in 1..Len(invocations), connected \in BOOLEAN : Step1Connect(i, connected)
  \/ \E i \in 1..Len(invocations) : Step1Lookup(i)
  \/ \E i \in 1..Len(invocations) : Step1Create(i)
  \/ \E i \in 1..Len(invocations), outcome \in STEP1_OUTCOMES : Step1Load(i, outcome)
  \/ \E i \in 1..MaxInvocations, outcome \in STEP2_OUTCOMES : FlowStep2(i, outcome)
  \/ \E i \in 1..MaxInvocations, delivered \in BOOLEAN : FlowStep3(i, delivered)
  \/ \E i \in 1..MaxInvocations, db_ok \in BOOLEAN : FlowStep4(i, db_ok)
  \/ \E i \in 1..MaxInvocations, db_ok \in BOOLEAN : FlowStep5(i, db_ok)

SpecFlow == InitFlow /\ [][NextFlow]_vars

\* ------------------------------------------------------------------------
\* The chatbot of the context payload of step 1
\* ------------------------------------------------------------------------
\* the rows of chatbots that Step 1B selects, with the tenant's stored fallback messages
BotRows ==
  { [model_name |-> m[1], rag_enabled |-> r,
     fallback_message_error |-> "Custom error message",
     fallback_message_limit |-> "Custom limit message"] :
      m \in ModelChoices, r \in BOOLEAN }

\* context_payload["chatbot"] as main of step 1 builds it, by the keys step 2
\* reads; a key the dict does not have is PyNone
Step1Chatbot(bot) ==
  [model_name |-> bot.model_name, rag_enabled |-> bot.rag_enabled,
   fallback_message_error |-> PyNone, fallback_message_limit |-> PyNone]

\* ------------------------------------------------------------------------
\* Properties
\* ------------------------------------------------------------------------
\* every response received so far requested at least one tool call, in the
\* form the loop looks for
AlwaysRequestsTools ==
  /\ failed_by \notin {"provider", "response"}
  /\ \A i \in 1..Len(responses) : responses[i].calls >= 1 /\ responses[i].signalled

RephraseReply ==
  IF args.provider = "openai" THEN OPENAI_REPHRASE_REPLY ELSE GEMINI_REPHRASE_REPLY

\* C1: in both agent loops, when the provider requests at least one tool call
\* in every response, the run ends after exactly max_iterations provider
\* calls, with max_iterations_reached true, iterations = max_iterations and
\* the fixed rephrase reply.
C1_AlwaysToolsExhausts ==
  (loop_result.returned /\ AlwaysRequestsTools) =>
    /\ provider_calls = args.max_iterations
    /\ "max_iterations_reached" \in loop_result.usage_info.keys
    /\ loop_result.usage_info.max_iterations_reached
    /\ loop_result.usage_info.iterations = args.max_iterations
    /\ loop_result.reply_text = RephraseReply

RECURSIVE SignalledRequests(_)
\* the tool-call requests of the responses that signal tool calls
SignalledRequests(rs) ==
  IF rs = <<>> THEN 0
  ELSE (IF Head(rs).signalled THEN Head(rs).calls ELSE 0) + SignalledRequests(Tail(rs))

\* C2: when an agent loop returns, tool_executions has one record per
\* tool-call request contained in the provider responses of the run.
C2_RecordPerRequest ==
  loop_result.returned => Len(loop_result.tool_executions) = SignalledRequests(responses)

\* C3: no run of an agent loop ends with usage.error set because of the
\* outcome of a tool invocation.
C3_ToolOutcomeNeverAborts ==
  ~(loop_result.returned /\ failed_by = "tool" /\ "error" \in loop_result.usage_info.keys)

\* C4: execute_tool never propagates an exception: it returns a result
\* object, which has an error key whenever the execution failed.
C4_ExecuteToolNeverRaises ==
  tool_outcome.called =>
    /\ ~tool_outcome.raised
    /\ IsDict(tool_outcome.value)
    /\ (tool_outcome.failed => HasKey(tool_outcome.value, "error"))

\* the provider error messages that contain one of the limit keywords
LimitMessages == {"429 Quota exceeded", "RESOURCE EXHAUSTED"}

\* C5: whenever the provider call raises (single call or either agent loop),
\* usage.is_limit_error tells whether the message contains a limit keyword and
\* reply_text is the chatbot's matching fallback message.
C5_ProviderFailureClassified ==
  (main_result.returned /\ failed_by = "provider") =>
    /\ "is_limit_error" \in main_result.usage_info.keys
    /\ main_result.usage_info.is_limit_error = (main_result.usage_info.error \in LimitMessages)
    /\ main_result.reply_text =
         IF main_result.usage_info.error \in LimitMessages
         THEN FallbackLimit(ctx) ELSE FallbackError(ctx)

\* C6: the step in which a provider call of an agent loop raises returns at
\* once with usage.error set, usage.iterations the index of the failed call
\* and the tool executions accumulated before it, having run no tool; no
\* provider call and no tool execution follows it.
C6_FailedNeverRetries ==
  [][ failed_by' = "provider" =>
        /\ loop_result'.returned
        /\ pc' = "loop_returned"
        /\ "error" \in loop_result'.usage_info.keys
        /\ loop_result'.usage_info.error \in ProviderErrors
        /\ loop_result'.usage_info.iterations = provider_calls'
        /\ loop_result'.tool_executions = tool_executions
        /\ tool_executions' = tool_executions
        /\ tools_run' = tools_run
        /\ provider_calls' = IF failed_by = "provider" THEN provider_calls
                                                        ELSE provider_calls + 1
    ]_vars

\* a provider call raised in the second iteration, after a tool had run
C6_Witness ==
  /\ failed_by = "provider"
  /\ loop_result.returned
  /\ loop_result.usage_info.iterations = 2
  /\ Len(loop_result.tool_executions) >= 1

\* C7: for a context whose proceed flag is false or absent, main returns
\* {error: reason, reply_text: the apology, should_notify_admin: notify_admin
\* (false when absent)} and performs no retrieval, no tool normalization, no
\* provider call and no tool call.
C7_Step1FailureShortCircuits ==
  ctx.proceed # "true" =>
    /\ pc \in {"main_start", "done"}
    /\ net_calls = {}
    /\ provider_calls = 0
    /\ tools_run = 0
    /\ retrieved_chunks = 0
    /\ tool_definitions = <<>>
    /\ full_system_prompt = <<>>
    /\ (pc = "done") = main_result.returned
    /\ main_result.returned =>
         /\ main_result.keys = {"error", "reply_text", "should_notify_admin"}
         /\ main_result.error = (IF ctx.reason = PyNone THEN DEFAULT_STEP1_REASON
                                 ELSE ctx.reason)
         /\ main_result.reply_text = STEP1_FAILED_REPLY
         /\ main_result.should_notify_admin = (ctx.notify_admin = "true")

\* main has returned for a context without a proceed flag, with tools configured
C7_Witness ==
  /\ main_result.returned
  /\ ctx.proceed = "absent"
  /\ ctx.notify_admin = "absent"
  /\ ctx.tools # <<>>
  /\ ctx.rag_enabled

ResolvedKey == IF provider = "openai" THEN ctx.openai_api_key ELSE ctx.google_api_key

\* C8: with proceed=true and an empty credential of the resolved provider,
\* main returns exactly {error: "Missing <Provider> API Key"} and has
\* attempted no network call of any kind.
C8_MissingKeyNoNetwork ==
  (main_result.returned /\ ctx.proceed = "true" /\ provider \in {"openai", "google"}
     /\ ResolvedKey = "") =>
    /\ main_result.keys = {"error"}
    /\ main_result.error = (IF provider = "openai" THEN "Missing OpenAI API Key"
                            ELSE "Missing Google API Key")
    /\ net_calls = {}

\* C9: when RAG is enabled and retrieval yields zero chunks, the result has
\* usage_info.rag_used = true and chunks_retrieved = 0, and the system prompt
\* has no knowledge-base context block.
C9_RagUsedWithoutChunks ==
  (main_result.returned /\ "usage_info" \in main_result.keys /\ ctx.rag_enabled
     /\ retrieved_chunks = 0 /\ "error" \notin main_result.usage_info.keys) =>
    /\ "rag_used" \in main_result.usage_info.keys
    /\ main_result.usage_info.rag_used
    /\ main_result.usage_info.chunks_retrieved = 0
    /\ "rag_context" \notin Range(full_system_prompt)

\* C10: every result of main that carries usage_info has rag_used and
\* chunks_retrieved in it, chunks_retrieved being the length of
\* retrieved_sources.
C10_UsageCarriesRagFields ==
  (main_result.returned /\ "usage_info" \in main_result.keys) =>
    /\ {"rag_used", "chunks_retrieved"} \subseteq main_result.usage_info.keys
    /\ main_result.usage_info.chunks_retrieved = main_result.retrieved_sources

\* the errors execute_tool answers with when it does not know how to run a tool
DispatchErrors == {"Tool not found", "Unknown tool type"}

\* C11: a tool call named search_knowledge_base is dispatched to the knowledge
\* retriever whether or not a definition of that name is in the tool list:
\* when main runs with RAG enabled, no record of a search_knowledge_base call
\* carries a 'not found' or 'Unknown tool type' error.
C11_SearchAlwaysRetrieves ==
  \A i \in 1..Len(tool_executions) :
    (ctx.rag_enabled /\ tool_executions[i].tool_name = "search_knowledge_base") =>
      Get(tool_executions[i].result, "error", PyNone) \notin DispatchErrors

\* C12: every envelope main returns for a proceed=true context with a valid
\* credential has a non-empty string as reply_text, also when the provider's
\* final response carries no text.
C12_ReplyNeverEmpty ==
  (main_result.returned /\ ctx.proceed = "true" /\ main_result.keys = ENVELOPE_KEYS) =>
    main_result.reply_text \notin {PyNone, ""}

\* C13: main never raises: for every proceed=true context with chatbot, user,
\* history and tools present it returns an envelope or a configuration error.
C13_MainNeverRaises ==
  (entry = "main" /\ ctx.proceed = "true") => pc # "raised"

\* C14: in the chat-completion loop, the execution of a tool call whose
\* arguments string is not valid JSON appends a record with arguments {} and
\* leaves the loop running.
C14_MalformedArgumentsRunEmpty ==
  [][ (pc = "exec_tools" /\ args.provider = "openai" /\ tools_run' = tools_run + 1
         /\ ~JsonLoads(Head(pending).arguments).ok) =>
        /\ Len(tool_executions') = Len(tool_executions) + 1
        /\ tool_executions'[Len(tool_executions')].arguments = PyDict({})
        /\ ~loop_result'.returned
        /\ pc' \in {"exec_tools", "loop_head"}
    ]_vars

\* C15: every record of tool_executions has status "failed" iff its result
\* has an error key, whatever the value under it, and "success" otherwise.
C15_StatusIffErrorKey ==
  \A i \in 1..Len(tool_executions) :
    /\ tool_executions[i].status \in {"failed", "success"}
    /\ (tool_executions[i].status = "failed") <=> HasKey(tool_executions[i].result, "error")

LastResponse == responses[Len(responses)]

\* the history ends with the tool-call message of the last response and,
\* after it, one tool result per call, in request order, carrying the id
\* (chat-completion) or the name (Gemini) of its request
HistoryAnswers(k) ==
  IF args.provider = "openai"
  THEN /\ Len(messages) >= k + 1
       /\ LET a == messages[Len(messages) - k]
          IN  /\ a.role = "assistant"
              /\ Len(a.parts) = k
              /\ \A i \in 1..k :
                   LET m == messages[Len(messages) - k + i]
                   IN  /\ m.role = "tool"
                       /\ Len(m.parts) = 1
                       /\ m.parts[1].name = a.parts[i].name
                       /\ a.parts[i].id = CALL_IDS[i]
                       /\ m.parts[1].id = CALL_IDS[i]
  ELSE /\ Len(messages) >= 2
       /\ LET a == messages[Len(messages) - 1]
              f == messages[Len(messages)]
          IN  /\ a.role = "model"
              /\ f.role = "function"
              /\ Len(a.parts) = k
              /\ Len(f.parts) = k
              /\ \A i \in 1..k : f.parts[i].name = a.parts[i].name

\* C16: a provider call that follows a response is issued only after every
\* tool call that response requested has been executed, and the history it
\* sends has, after the assistant's tool-call message, exactly one tool result
\* per requested call, in request order, each with the id or name of its request.
C16_NextCallAfterAllResults ==
  [][ (provider_calls' = provider_calls + 1 /\ responses # <<>>) =>
        /\ pending = <<>>
        /\ LastResponse.signalled
        /\ tools_run = SignalledRequests(responses)
        /\ Len(tool_executions) = tools_run
        /\ HistoryAnswers(LastResponse.calls)
    ]_vars

\* a second provider call of the chat-completion loop was issued after a
\* response that requested two tool calls
C16_Witness ==
  /\ args.provider = "openai"
  /\ provider_calls = 2
  /\ responses[1].calls = 2
  /\ tools_run = 2

\* C17: main invokes an agent loop iff the canonical tool list is non-empty;
\* otherwise it makes exactly one provider call, executes no tool and returns
\* tool_executions = [].
C17_LoopIffCanonicalTools ==
  /\ pc \in {"loop_head", "exec_tools", "loop_returned"} => tool_definitions # <<>>
  /\ pc = "single_call" => tool_definitions = <<>>
  /\ (main_result.returned /\ main_result.keys = ENVELOPE_KEYS) =>
       IF tool_definitions # <<>>
       THEN loop_result.returned
       ELSE /\ ~loop_result.returned
            /\ provider_calls = 1
            /\ tools_run = 0
            /\ main_result.tool_executions = <<>>

\* main has returned after an agent loop that had the built-in search tool
\* only, or after a single call for a chatbot whose only tool is not callable
C17_Witness ==
  /\ main_result.returned
  /\ main_result.keys = ENVELOPE_KEYS
  /\ \/ ctx.tools = <<>> /\ ctx.rag_enabled /\ loop_result.returned /\ tools_run = 1
     \/ ctx.tools # <<>> /\ tool_definitions = <<>> /\ provider_calls = 1

\* the termination reasons of a complete answer
StandardFinish == {"stop", "STOP"}

\* C18: in both loops a response without tool calls and with a non-standard
\* termination reason ends the run with the partial text (a generic message
\* when there is none) as reply_text and the raw reason in usage.finish_reason.
C18_UnexpectedFinishRecorded ==
  (loop_result.returned /\ failed_by = "none" /\ responses # <<>>
     /\ LastResponse.calls = 0 /\ LastResponse.reported.present
     /\ LastResponse.finish \notin StandardFinish) =>
    /\ "finish_reason" \in loop_result.usage_info.keys
    /\ loop_result.usage_info.finish_reason = LastResponse.finish
    /\ IF LastResponse.has_text THEN loop_result.reply_text = FINAL_TEXT
       ELSE loop_result.reply_text \notin {PyNone, "", FINAL_TEXT}

\* C19: a response without usage metadata neither fails the loop nor adds
\* nothing: when such a response was received, the run did not fail on it
\* and usage.tokens_input and usage.tokens_output are at least 1.
C19_NoUsageIsEstimated ==
  (loop_result.returned /\ \E i \in 1..Len(responses) : ~responses[i].reported.present) =>
    /\ failed_by # "response"
    /\ loop_result.usage_info.tokens_input >= 1
    /\ loop_result.usage_info.tokens_output >= 1

RECURSIVE ReportedInput(_)
\* the input tokens reported by the responses of the run
ReportedInput(rs) ==
  IF rs = <<>> THEN 0 ELSE Head(rs).reported.prompt_tokens + ReportedInput(Tail(rs))

RECURSIVE ReportedOutput(_)
\* the output tokens reported by the responses of the run
ReportedOutput(rs) ==
  IF rs = <<>> THEN 0 ELSE Head(rs).reported.completion_tokens + ReportedOutput(Tail(rs))

\* C20: on every terminal outcome of either loop, usage.tokens_input and
\* usage.tokens_output are the sums of the input and output token counts
\* reported by the provider calls that completed during the run.
C20_TokensAreReportedSums ==
  loop_result.returned =>
    /\ loop_result.usage_info.tokens_input = ReportedInput(responses)
    /\ loop_result.usage_info.tokens_output = ReportedOutput(responses)
    /\ {"tokens_input", "tokens_output"} \subseteq loop_result.usage_info.keys

\* a run of the Gemini loop failed on its second provider call, after a first
\* call that reported its usage
C20_Witness ==
  /\ loop_result.returned
  /\ args.provider = "google"
  /\ failed_by = "provider"
  /\ Len(responses) = 1
  /\ loop_result.usage_info.tokens_input = USAGE.prompt_tokens
  /\ loop_result.usage_info.tokens_output = USAGE.completion_tokens

\* the model names of ModelChoices whose lower-cased form contains the substring
NamesWithGemini == {"gemini-pro", "Gemini-GPT"}
NamesWithGpt == {"GPT-4o", "Gemini-GPT"}

\* C21: the resolved provider is google whenever the lower-cased model name
\* contains "gemini", openai when it contains "gpt" but not "gemini", and
\* default_provider otherwise; a resolved provider other than these two yields
\* {error: "Unknown provider: <name>"} without any provider call.
C21_ProviderResolution ==
  (ctx.proceed = "true" /\ pc \notin {"main_start", "raised"}) =>
    /\ provider = (IF ctx.model_name \in NamesWithGemini THEN "google"
                   ELSE IF ctx.model_name \in NamesWithGpt THEN "openai"
                   ELSE ctx.default_provider)
    /\ (main_result.returned /\ provider \notin {"openai", "google"}) =>
         /\ main_result.keys = {"error"}
         /\ main_result.error = "Unknown provider: anthropic"
         /\ provider_calls = 0
         /\ tools_run = 0

\* main has returned for a model name that contains both substrings, with
\* default_provider openai
C21_Witness ==
  /\ main_result.returned
  /\ ctx.model_name = "Gemini-GPT"
  /\ ctx.default_provider = "openai"
  /\ provider = "google"
  /\ provider_calls >= 1

PrepareReturned == fn_call.fn = "prepare_tool_definitions" /\ pc = "fn_done"

\* C22: no tool record with enabled=false appears in the list
\* prepare_tool_definitions returns, for any input list mixing enabled and
\* disabled records.
C22_DisabledNeverListed ==
  PrepareReturned =>
    \A i \in 1..Len(fn_call.tools), j \in 1..Len(fn_result[1]) :
      fn_call.tools[i].enabled = "false" => fn_result[1][j].name # fn_call.tools[i].name

\* a list with a disabled callable record before an enabled one has been normalized
C22_Witness ==
  /\ PrepareReturned
  /\ Len(fn_call.tools) = 2
  /\ fn_call.tools[1].enabled = "false"
  /\ fn_call.tools[1].provider = "mcp"
  /\ fn_call.tools[2].enabled = "true"
  /\ fn_call.tools[2].provider = "windmill"
  /\ Len(fn_result[1]) = 1

\* the enabled records of a list, in input order
EnabledRecords(tools) == SelectSeq(tools, LAMBDA t : t.enabled # "false")

\* C23: prepare_tool_definitions emits exactly one definition per enabled
\* record, in input order, for every provider kind a record can carry, and
\* the metadata kind of a definition corresponds to the kind of its record.
C23_OneDefinitionPerEnabledRecord ==
  PrepareReturned =>
    LET enabled == EnabledRecords(fn_call.tools)
    IN  /\ Len(fn_result[1]) = Len(enabled)
        /\ \A i \in 1..Len(enabled) :
             /\ fn_result[1][i].name = enabled[i].name
             /\ fn_result[1][i].has_metadata
             /\ fn_result[1][i].tool_type = enabled[i].provider

SanitizeReturned == fn_call.fn = "sanitize_gemini_parameters" /\ pc = "fn_done"

\* C24: sanitize_gemini_parameters(sanitize_gemini_parameters(s)) equals
\* sanitize_gemini_parameters(s) for every input schema s, and the output
\* always has the keys type and properties.
C24_SanitizeIdempotent ==
  /\ SanitizeReturned => fn_result[2] = fn_result[1]
  /\ (fn_call.fn = "sanitize_gemini_parameters" /\ fn_result # <<>>) =>
       \A i \in 1..Len(fn_result) :
         /\ fn_result[i].t = "dict"
         /\ HasKey(fn_result[i], "type")
         /\ HasKey(fn_result[i], "properties")

\* a schema without a type and without properties, with a nested stripped
\* keyword, has been sanitized twice
C24_Witness ==
  /\ SanitizeReturned
  /\ fn_call.params.t = "dict"
  /\ ~HasKey(fn_call.params, "type")
  /\ ~HasKey(fn_call.params, "properties")
  /\ HasKey(fn_call.params, "additionalProperties")
  /\ fn_result[1] # fn_call.params

RECURSIVE HasStrippedKey(_)
\* some mapping inside x, at any depth, has a key whose lower-cased,
\* underscore-stripped form is additionalproperties or additionalitems
HasStrippedKey(x) ==
  CASE x.t = "dict" -> \E p \in x.d : IsStrippedKey(p[1]) \/ HasStrippedKey(p[2])
    [] x.t = "list" -> \E i \in 1..Len(x.items) : HasStrippedKey(x.items[i])
    [] OTHER -> FALSE

RECURSIVE TypedProperties(_)
\* the names of the property sub-schemas inside x, at any depth, that
\* contain a type key
TypedProperties(x) ==
  CASE x.t = "dict" ->
         UNION {TypedProperties(p[2]) : p \in x.d}
           \cup {q[1] : q \in {q \in UNION {p[2].d : p \in {p \in x.d : p[1] = "properties"}} :
                                 q[2].t = "dict" /\ HasKey(q[2], "type")}}
    [] x.t = "list" -> UNION {TypedProperties(x.items[i]) : i \in 1..Len(x.items)}
    [] OTHER -> {}

\* C25: the schema sanitize_gemini_parameters returns has, at any nesting
\* depth, no key whose lower-cased, underscore-stripped form is
\* additionalproperties or additionalitems, and every nested property
\* sub-schema of the input that contains a type key is still in it.
C25_StrippedAtAnyDepth ==
  (fn_call.fn = "sanitize_gemini_parameters" /\ pc = "fn_again") =>
    /\ ~HasStrippedKey(fn_result[1])
    /\ TypedProperties(fn_call.params) \subseteq TypedProperties(fn_result[1])

\* ------------------------------------------------------------------------
\* C26: the tool-usage instruction block of the system prompt lists exactly
\* the tools of the canonical tool list offered to the provider, one entry per
\* canonical tool, and it is omitted iff that list is empty
\* ------------------------------------------------------------------------
PROMPT_BLOCKS == {"base_prompt", "persona", "user_context", "rag_context", "tool_instructions"}
ListedTools(prompt) == SelectSeq(prompt, LAMBDA b : b \notin PROMPT_BLOCKS)
C26_InstructionsListCanonicalTools ==
  full_system_prompt # <<>> =>
    /\ ListedTools(full_system_prompt) = [i \in 1..Len(tool_definitions) |-> tool_definitions[i].name]
    /\ ("tool_instructions" \notin Range(full_system_prompt)) <=> (tool_definitions = <<>>)

\* ------------------------------------------------------------------------
\* C27: execute_mcp_tool POSTs to <base_url>/tools/<tool_name> and returns
\* the parsed response body verbatim iff the response is 2xx; a timeout gives
\* {error: 'MCP server timeout (30s)'}, any other transport or non-2xx outcome
\* gives {error: 'MCP server error: <detail>'}, and a missing base URL gives an
\* error without any request being sent
\* ------------------------------------------------------------------------
McpReturned == entry = "fn" /\ pc = "fn_done" /\ fn_call.fn = "execute_mcp_tool"
McpError(msg) == PyDict({<<"error", msg>>})
Is2xx(http) == StatusCode(http) \in 200..299
C27_McpContract ==
  McpReturned =>
    LET r == fn_result[1]
        http == fn_call.env.http
    IN  /\ ~r.raised
        /\ IF fn_call.mcp_server_url \in {PyNone, ""}
           THEN HasKey(r.value, "error") /\ r.posts = <<>>
           ELSE /\ r.posts = <<rstrip(StrChars(fn_call.mcp_server_url), "/")
                                 \o StrChars("/tools/") \o StrChars(fn_call.tool_name)>>
                /\ (r.value = fn_call.env.body) <=> Is2xx(http)
                /\ http = "timeout" => r.value = McpError("MCP server timeout (30s)")
                /\ (http # "timeout" /\ ~Is2xx(http)) => r.value = McpError("MCP server error: detail")

\* ------------------------------------------------------------------------
\* C28: a message id whose webhook event has status 'completed' is never
\* processed again: the call of step 1 that finds it returns proceed = false
\* with the reason 'Already Processed' and the id of that event, no second
\* event is created for the message id, and the event stays 'completed'
\* ------------------------------------------------------------------------
LooksUp(i) == invocations[i].at = "lookup" /\ invocations'[i].at # "lookup"
C28_CompletedNeverProcessedAgain ==
  [][\A i \in 1..Len(invocations) :
       LET id == EventIdOf(webhook_events, invocations[i].message_id)
       IN  (LooksUp(i) /\ id # 0 /\ webhook_events[id].status = "completed") =>
             /\ invocations'[i].result = Step1Result(FALSE, "Already Processed", id, FALSE)
             /\ webhook_events' = webhook_events]_vars
C28_Witness ==
  \E i \in 1..Len(invocations) :
    /\ invocations[i].status = "completed"
    /\ invocations[i].result.returned
    /\ webhook_events[invocations[i].webhook_event_id].status = "completed"

\* ------------------------------------------------------------------------
\* C29: when step 1 runs for a message id whose webhook event has status
\* 'failed', the retry proceeds with the id of that event and the status of
\* the event is updated from 'failed' to 'processing'
\* ------------------------------------------------------------------------
C29_FailedRetryIsProcessing ==
  [][\A i \in 1..Len(invocations) :
       (/\ invocations[i].status = "failed"
        /\ invocations[i].at = "load"
        /\ invocations'[i].result.returned
        /\ invocations'[i].result.proceed) =>
          /\ invocations'[i].result.webhook_event_id = invocations[i].webhook_event_id
          /\ webhook_events'[invocations[i].webhook_event_id].status = "processing"]_vars

\* ------------------------------------------------------------------------
\* C30: while the webhook event of a message id has status 'processing', a
\* further call of step 1 for that message id is rejected: it returns
\* proceed = false with the reason 'Currently Processing'
\* ------------------------------------------------------------------------
C30_ProcessingIsRejected ==
  \A i \in 1..Len(invocations) :
    (invocations[i].status = "processing" /\ invocations[i].result.returned) =>
      /\ ~invocations[i].result.proceed
      /\ invocations[i].result.reason = "Currently Processing"

\* ------------------------------------------------------------------------
\* C31: for an active chatbot, step 1 returns proceed = false with the reason
\* 'Usage Limit Exceeded', notify_admin = true and usage_info.has_quota = false
\* iff messages_used >= message_limit or tokens_used >= token_limit when the
\* usage is checked; limit_type is 'messages' when the message limit is hit
\* and 'tokens' otherwise; and the webhook event of the message is then
\* marked 'failed'
\* ------------------------------------------------------------------------
OverLimit(usage) ==
  usage.messages >= MessageLimitMonthly \/ usage.tokens >= TokenLimitMonthly
\* invocation i passes the usage check of an active chatbot in this step
ChecksUsage(i) ==
  /\ invocations[i].at = "load"
  /\ invocations'[i].at = "returned"
  /\ ~invocations'[i].result.raised
  /\ invocations'[i].result.reason \notin {"Chatbot not found", "Service Inactive"}
RejectedForUsage(r) ==
  /\ ~r.proceed
  /\ r.reason = "Usage Limit Exceeded"
  /\ r.notify_admin
  /\ r.usage_info.present /\ ~r.usage_info.has_quota
C31_UsageGate ==
  [][\A i \in 1..Len(invocations) :
       ChecksUsage(i) =>
         LET r == invocations'[i].result
         IN  /\ RejectedForUsage(r) <=> OverLimit(usage_summary)
             /\ RejectedForUsage(r) =>
                  /\ r.usage_info.limit_type =
                       (IF usage_summary.messages >= MessageLimitMonthly THEN "messages"
                        ELSE "tokens")
                  /\ webhook_events'[invocations[i].webhook_event_id].status = "failed"]_vars
C31_Witness ==
  \E i \in 1..Len(invocations) :
    /\ RejectedForUsage(invocations[i].result)
    /\ invocations[i].result.usage_info.limit_type = "tokens"
    /\ webhook_events[invocations[i].webhook_event_id].status = "failed"

\* ------------------------------------------------------------------------
\* C32: chat-history rows are inserted and usage counters incremented only in
\* a flow run where step 1 returned proceed = true, step 2 returned no error
\* and the WhatsApp send succeeded; when the send fails, the history-save and
\* usage-logging steps both return success = false with a 'Step 3 failed'
\* error and leave the messages and usage tables unchanged
\* ------------------------------------------------------------------------
STEP3_FAILED == "Cannot proceed - Step 3 failed"
SendFailed(i) == runs[i].send_result.present /\ ~runs[i].send_result.success
RunSucceeded(i) ==
  /\ invocations[i].result.proceed
  /\ ~runs[i].llm_result.has_error
  /\ runs[i].send_result.present /\ runs[i].send_result.success
\* run i takes step 4 or step 5 in this step
Saves(i) == runs[i].at \in {"step4", "step5"} /\ runs'[i].at # runs[i].at
WritesOnlyAfterSuccess ==
  \A i \in 1..Len(invocations) :
    Saves(i) => \/ RunSucceeded(i)
                \/ (messages_table' = messages_table /\ usage_summary' = usage_summary)
SkippedForStep3(i) ==
  /\ messages_table' = messages_table /\ usage_summary' = usage_summary
  /\ runs[i].at = "step4" => runs'[i].history_result = StepResult(FALSE, STEP3_FAILED)
  /\ runs[i].at = "step5" => runs'[i].usage_result = StepResult(FALSE, STEP3_FAILED)
\* the claim as it is written: for every run whose send failed
C32_SendFailureSkipsSaving ==
  [][/\ WritesOnlyAfterSuccess
     /\ \A i \in 1..Len(invocations) : (Saves(i) /\ SendFailed(i)) => SkippedForStep3(i)]_vars
\* the claim amended: the 'Step 3 failed' error is that of a run where step 1
\* proceeded and step 2 returned no error; in every run whose send failed the
\* two steps return success = false and leave the tables unchanged
C32_SendFailureSkipsSavingAmended ==
  [][/\ WritesOnlyAfterSuccess
     /\ \A i \in 1..Len(invocations) :
          (Saves(i) /\ SendFailed(i)) =>
            /\ messages_table' = messages_table /\ usage_summary' = usage_summary
            /\ runs[i].at = "step4" => ~runs'[i].history_result.success
            /\ runs[i].at = "step5" => ~runs'[i].usage_result.success
            /\ (invocations[i].result.proceed /\ ~runs[i].llm_result.has_error) =>
                  SkippedForStep3(i)]_vars
C32_Witness ==
  \E i \in 1..Len(invocations), j \in 1..Len(invocations) :
    /\ invocations[i].result.proceed /\ ~runs[i].llm_result.has_error /\ SendFailed(i)
    /\ runs[i].history_result = StepResult(FALSE, STEP3_FAILED)
    /\ runs[i].usage_result = StepResult(FALSE, STEP3_FAILED)
    /\ RunSucceeded(j) /\ runs[j].usage_result.success /\ runs[j].history_result.success

\* ------------------------------------------------------------------------
\* C33: when the LLM call fails and step 2 returns a fallback reply
\* (usage_info.error set), the history-save and usage-logging steps skip: no
\* message rows are stored for the run and the failed call is not counted
\* against the usage of the organization
\* ------------------------------------------------------------------------
C33_FallbackIsNotSavedNorCounted ==
  [][\A i \in 1..Len(invocations) :
       (Saves(i) /\ runs[i].llm_result.usage_error) =>
         /\ messages_table' = messages_table /\ usage_summary' = usage_summary
         /\ runs[i].at = "step4" => ~runs'[i].history_result.success
         /\ runs[i].at = "step5" => ~runs'[i].usage_result.success]_vars

\* ------------------------------------------------------------------------
\* C40: for any interleaving of concurrent flow runs of one organization, the
\* number of messages let through the usage gate of step 1 and answered in a
\* billing period never exceeds message_limit_monthly
\* ------------------------------------------------------------------------
\* the answered messages: those counted in usage_summary and those of the
\* runs whose reply was delivered and is not counted
AnsweredNotCounted ==
  {i \in 1..Len(invocations) : RunSucceeded(i) /\ ~runs[i].usage_result.success}
C40_AnsweredWithinMessageLimit ==
  entry = "flow" =>
    usage_summary.messages + Cardinality(AnsweredNotCounted) <= MessageLimitMonthly

\* ------------------------------------------------------------------------
\* C34: when step 2 is fed the context produced by step 1 unchanged and the
\* provider call fails, reply_text is the fallback_message_error or the
\* fallback_message_limit stored in the configuration of the chatbot, not a
\* built-in default string
\* ------------------------------------------------------------------------
\* ctx is the payload step 1 returns for the chatbot row bot
IsStep1Context(bot) ==
  /\ ctx.proceed = "true"
  /\ \A k \in DOMAIN Step1Chatbot(bot) : ctx[k] = Step1Chatbot(bot)[k]
C34_FallbackIsTenantConfigured ==
  \A bot \in BotRows :
    (IsStep1Context(bot) /\ main_result.returned /\ failed_by = "provider") =>
      main_result.reply_text \in {bot.fallback_message_error, bot.fallback_message_limit}

\* ------------------------------------------------------------------------
\* C35: the body POSTed to a remote-HTTP tool always carries chatbot_id equal
\* to the id of the chatbot whose reasoning call is running, even when the
\* arguments the model supplied contain a chatbot_id of another value
\* ------------------------------------------------------------------------
C35_PostedChatbotIdIsTheCallers ==
  McpReturned =>
    \A b \in 1..Len(fn_result[1].bodies) :
      /\ HasKey(fn_result[1].bodies[b], "chatbot_id")
      /\ \A p \in fn_result[1].bodies[b].d : p[1] = "chatbot_id" => p[2] = CHATBOT_ID
C35_Witness ==
  /\ McpReturned
  /\ Get(fn_call.arguments, "chatbot_id", CHATBOT_ID) # CHATBOT_ID
  /\ Len(fn_result[1].bodies) = 1
  /\ Get(fn_result[1].bodies[1], "chatbot_id", PyNone) = CHATBOT_ID

\* ------------------------------------------------------------------------
\* C36: in every run of either agent loop, for any provider behaviour and any
\* max_iterations >= 0, the number of provider calls never exceeds
\* max_iterations, usage.iterations is the number of provider calls attempted,
\* usage.tool_calls is the length of tool_executions, and the iteration field
\* of every tool execution record lies in 1..usage.iterations and is
\* non-decreasing along the list
\* ------------------------------------------------------------------------
C36_LoopCounters ==
  entry = "loop" =>
    /\ provider_calls <= args.max_iterations
    /\ loop_result.returned =>
         LET usage == loop_result.usage_info
             execs == loop_result.tool_executions
         IN  /\ {"iterations", "tool_calls"} \subseteq usage.keys
             /\ usage.iterations = provider_calls
             /\ usage.tool_calls = Len(execs)
             /\ \A k \in 1..Len(execs) : execs[k].iteration \in 1..usage.iterations
             /\ \A k \in 1..(Len(execs) - 1) : execs[k].iteration <= execs[k + 1].iteration
C36_Witness ==
  /\ entry = "loop"
  /\ loop_result.returned
  /\ provider_calls = 2
  /\ Len(loop_result.tool_executions) >= 2
  /\ loop_result.tool_executions[1].iteration < loop_result.tool_executions[Len(loop_result.tool_executions)].iteration

\* ------------------------------------------------------------------------
\* Tool results and the provider calls that follow them
\* ------------------------------------------------------------------------
\* a tool was executed after the last provider call of the run: a record of
\* the last iteration exists, or a tool outcome of that iteration ended the run
ToolsAfterLastProviderCall ==
  \/ failed_by = "tool"
  \/ \E k \in 1..Len(loop_result.tool_executions) :
       loop_result.tool_executions[k].iteration = provider_calls

\* C37: in either agent loop every executed tool call's result is contained in
\* the history of a later provider call of the same run: no tool is executed
\* in an iteration after which the provider is never called again.
C37_NoToolAfterLastProviderCall ==
  (entry = "loop" /\ loop_result.returned) => ~ToolsAfterLastProviderCall

\* C37 (amended): a provider call made after tool executions carries in its
\* history the result of every tool call executed since the previous provider
\* call, and a run ends with tools executed after its last provider call only
\* when that call was the max_iterations-th one (the run returns with
\* max_iterations_reached) or when a tool outcome ended the run with
\* usage.error set.
C37_ToolResultsReachNextCallOrRunEnds ==
  [][ entry = "loop" =>
        /\ (provider_calls' = provider_calls + 1 /\ responses # <<>>) =>
             /\ pending = <<>>
             /\ Len(tool_executions) = tools_run
             /\ \A k \in 1..Len(tool_executions) : tool_executions[k].iteration <= provider_calls
             /\ HistoryAnswers(LastResponse.calls)
        /\ (loop_result'.returned /\ ToolsAfterLastProviderCall') =>
             \/ /\ loop_result'.usage_info.max_iterations_reached
                /\ provider_calls' = args.max_iterations
             \/ /\ "error" \in loop_result'.usage_info.keys
                /\ failed_by' = "tool"
    ]_vars

\* a Gemini run whose first iteration's tool result reached the second
\* provider call and whose second iteration's tool was executed before the
\* run returned with max_iterations_reached
C37_Witness ==
  /\ entry = "loop"
  /\ args.provider = "google"
  /\ loop_result.returned
  /\ loop_result.usage_info.max_iterations_reached
  /\ provider_calls = 2
  /\ \E k \in 1..Len(loop_result.tool_executions) :
       loop_result.tool_executions[k].iteration = 1
  /\ \E k \in 1..Len(loop_result.tool_executions) :
       loop_result.tool_executions[k].iteration = 2

\* ------------------------------------------------------------------------
\* The properties map of a sanitized schema
\* ------------------------------------------------------------------------
\* the keys of the properties map of schema x
PropertyNames(x) ==
  {q[1] : q \in UNION {p[2].d : p \in {p \in x.d : p[1] = "properties"}}}
\* the names the required list of schema x holds
RequiredNames(x) ==
  UNION {{p[2].items[i].v : i \in 1..Len(p[2].items)} : p \in {p \in x.d : p[1] = "required"}}

C39_SearchUsesEmbeddingsCredential ==
  (entry = "main" /\ tool_outcome.called /\ tool_outcome.embeddings_key # PyNone) =>
    /\ tool_outcome.embeddings_key = ctx.openai_api_key
    /\ provider = "google" => tool_outcome.embeddings_key # ctx.google_api_key
====
